---------------------------- MODULE Spec2Model ----------------------------
(***************************************************************************)
(* A model of audiopus, the safe wrapper around the native Opus codec      *)
(* engine: the error taxonomy (error.rs), the validated buffers            *)
(* (packet.rs, lib.rs), the handle-free packet functions (packet.rs,       *)
(* repacketizer.rs), the resource handles Encoder / Decoder / Repacketizer *)
(* (coder/encoder.rs, coder/decoder.rs, repacketizer.rs), the soft clipper *)
(* (softclip.rs) and the control requests.                                 *)
(*                                                                         *)
(* The native engine is outside the crate.  Where the crate documents or   *)
(* tests what the engine does (the range of a setting, its default) the    *)
(* engine is modelled from that; everywhere else the value a native call   *)
(* returns is a nondeterministic choice.                                   *)
(***************************************************************************)
EXTENDS Integers, Sequences, FiniteSets, TLC

VARIABLES
    handles,    \* the Encoder / Decoder / Repacketizer values of the caller
    engine,     \* the native engine's resources, keyed by pointer
    softclip,   \* the SoftClip value of the caller
    ret         \* what the last operation did: its input, its native calls, its result

vars == <<handles, engine, softclip, ret>>

-----------------------------------------------------------------------------
(* The records of the model.  Every record is built with its fields in the *)
(* order of this section.                                                  *)

\* A Result<T>: Ok with its value (an i32 in i, a usize in u, an enum
\* variant in s, or the unit), or Err with the Error variant in ty, its
\* number in i and, for Error::Opus, the ErrorCode in s.
Result(ok, ty, i, u, s) == [ok |-> ok, ty |-> ty, i |-> i, u |-> u, s |-> s]

\* A native call: the function, the resource pointer it was made on (0 when
\* it takes none), the integer arguments handed over, the value returned.
NCall(fn, res, argv, out) == [fn |-> fn, res |-> res, argv |-> argv, out |-> out]

\* What an operation did: its native calls and its result.
Did(calls, result) == [calls |-> calls, result |-> result]

\* What an operation on a handle did, with the engine after it.
DidOn(calls, result, eng) == [calls |-> calls, result |-> result, eng |-> eng]

\* The record of an operation: what it did, its name, the handle, the buffer
\* it was given and how, its other arguments, and for a conversion the view
\* and the view's i32_len.
Record(op, h, src, buf, args, uargs, did, view, viewlen) ==
    [calls |-> did.calls, result |-> did.result, op |-> op, h |-> h, src |-> src,
     buf |-> buf, args |-> args, uargs |-> uargs, view |-> view, viewlen |-> viewlen]

\* A conversion yields the view or the error.
Conversion(ok, view, err) == [ok |-> ok, view |-> view, err |-> err]

\* A caller's buffer: its address and its length.
Buffer(ptr, len) == [ptr |-> ptr, len |-> len]

\* A native resource.
Resource(state, kind, destroys, misuse, frames, cfg) ==
    [state |-> state, kind |-> kind, destroys |-> destroys, misuse |-> misuse,
     frames |-> frames, cfg |-> cfg]

\* An Encoder, Decoder or Repacketizer value.
Handle(kind, life, pointer, channels) ==
    [kind |-> kind, life |-> life, pointer |-> pointer, channels |-> channels]

\* struct SoftClip
SoftClip(channels, memory) == [channels |-> channels, memory |-> memory]

\* What SoftClip::apply did, with the filter memory after it.
DidClip(calls, result, memory) ==
    [calls |-> calls, result |-> result, memory |-> memory]

\* The settings of a codec resource.
Cfg(gain, complexity, packet_loss_perc, lsb_depth, inband_fec, vbr, vbr_constraint, dtx, prediction_disabled, phase_inversion_disabled, signal, force_channels, application) ==
    [gain |-> gain, complexity |-> complexity,
     packet_loss_perc |-> packet_loss_perc, lsb_depth |-> lsb_depth,
     inband_fec |-> inband_fec, vbr |-> vbr, vbr_constraint |-> vbr_constraint,
     dtx |-> dtx, prediction_disabled |-> prediction_disabled,
     phase_inversion_disabled |-> phase_inversion_disabled, signal |-> signal,
     force_channels |-> force_channels, application |-> application]

\* What a native create function reports: the pointer and the status.
Created(pointer, status) == [pointer |-> pointer, status |-> status]

\* What a constructor returns: the Result and, when it is Ok, the handle.
Constructed(result, handle) == [result |-> result, handle |-> handle]

\* What a native ctl call does: the status returned, the settings after it
\* and the value written back (for a get) or handed over (for a set).
CtlOutcome(out, cfg, value) == [out |-> out, cfg |-> cfg, value |-> value]

-----------------------------------------------------------------------------
(* Bounds of the model.                                                    *)

\* Lengths and integer inputs are probed this far on both sides of every edge.
MaxProbe == 1
\* The caller owns this many handles.
MaxHandles == 2
\* The repacketizer accumulator is followed up to this many frames.
MaxFrames == 2
MaxSamples == 3

-----------------------------------------------------------------------------
(* Native status codes and enum values (audiopus_sys), as the crate uses   *)
(* them.                                                                   *)

OPUS_OK == 0
OPUS_BAD_ARG == -1
OPUS_BUFFER_TOO_SMALL == -2
OPUS_INTERNAL_ERROR == -3
OPUS_INVALID_PACKET == -4
OPUS_UNIMPLEMENTED == -5
OPUS_INVALID_STATE == -6
OPUS_ALLOC_FAIL == -7

OPUS_AUTO == -1000
OPUS_BITRATE_MAX == -1
OPUS_BANDWIDTH_NARROWBAND == 1101
OPUS_BANDWIDTH_MEDIUMBAND == 1102
OPUS_BANDWIDTH_WIDEBAND == 1103
OPUS_BANDWIDTH_SUPERWIDEBAND == 1104
OPUS_BANDWIDTH_FULLBAND == 1105
OPUS_SIGNAL_VOICE == 3001
OPUS_SIGNAL_MUSIC == 3002
OPUS_APPLICATION_VOIP == 2048
OPUS_APPLICATION_AUDIO == 2049
OPUS_APPLICATION_RESTRICTED_LOWDELAY == 2051

\* The ranges the engine accepts, as the crate documents and tests them.
GAIN_MIN == -32768
GAIN_MAX == 32767
COMPLEXITY_MAX == 10
PACKET_LOSS_PERC_MAX == 100
LSB_DEPTH_MIN == 8
LSB_DEPTH_MAX == 24
U8_MAX == 2^8 - 1

I32_MAX == 2147483647
I32_MIN == -I32_MAX - 1

-----------------------------------------------------------------------------
(* usize: a 64-bit unsigned value, kept as four 16-bit limbs, least        *)
(* significant first, so that a length above i32::MAX and the casts        *)
(* between usize and i32 are computed as the machine computes them.        *)

Limb == 2^16

USize(l0, l1, l2, l3) == <<l0, l1, l2, l3>>

UZero == USize(0, 0, 0, 0)

\* `x.is_empty()`, i.e. len() == 0
UIsZero(u) == u = UZero

\* `a > b` on usize: decided at the most significant limb that differs
UGreater(a, b) ==
    \E k \in 1..4 : a[k] > b[k] /\ \A j \in (k + 1)..4 : a[j] = b[j]

\* `len as i32`: the low 32 bits, read as a signed number
UAsI32(u) ==
    IF u[2] >= 32768 THEN (u[2] - Limb) * Limb + u[1] ELSE u[2] * Limb + u[1]

\* `n as usize` for an i32 n: sign extension to 64 bits
I32AsUsize(n) ==
    IF n >= 0
    THEN USize(n % Limb, n \div Limb, 0, 0)
    ELSE USize(n % Limb, (n \div Limb) % Limb, Limb - 1, Limb - 1)

\* `len > std::i32::MAX as usize`
UExceedsI32Max(u) == UGreater(u, I32AsUsize(I32_MAX))

\* `n as u8` for an i32 n
I32AsU8(n) == n % 256

\* The lengths a caller's buffer is given: around 0, around i32::MAX, around
\* 2^32 (where the low 32 bits look small again) and the largest usize.
ProbeLens ==
    { USize(k, 0, 0, 0) : k \in 0..(MaxProbe + 1) }
    \cup { USize(Limb - 1 - k, 32767, 0, 0) : k \in 0..MaxProbe }
    \cup { USize(k, 32768, 0, 0) : k \in 0..MaxProbe }
    \cup { USize(k, 0, 1, 0) : k \in 0..MaxProbe }
    \cup { USize(Limb - 1, Limb - 1, Limb - 1, Limb - 1) }

-----------------------------------------------------------------------------
(* error.rs: Result, Error, ErrorCode.                                     *)

OkI32(v) == Result(TRUE, "i32", v, UZero, "")
OkUsize(x) == Result(TRUE, "usize", 0, x, "")
OkEnum(name) == Result(TRUE, "enum", 0, UZero, name)
OkBool(b) == Result(TRUE, "bool", IF b THEN 1 ELSE 0, UZero, "")
OkUnit == Result(TRUE, "unit", 0, UZero, "")

\* Error::<variant>, Error::<variant>(n) and Error::Opus(code)
Err(variant) == Result(FALSE, variant, 0, UZero, "")
ErrWith(variant, n) == Result(FALSE, variant, n, UZero, "")

\* impl From<ErrorCode> for Error
ErrorFromErrorCode(code) == Result(FALSE, "Opus", 0, UZero, code)

\* The validation errors, raised by the crate itself.
ValidationErrors == {"EmptyPacket", "PacketTooLarge", "SignalsTooLarge"}

\* enum ErrorCode and its #[repr(i32)] discriminants
ErrorCodes ==
    {"BadArgument", "BufferTooSmall", "InternalError", "InvalidPacket",
     "Unimplemented", "InvalidState", "AllocFail", "Unknown"}

ErrorCodeDiscriminant(code) ==
    CASE code = "BadArgument" -> OPUS_BAD_ARG
      [] code = "BufferTooSmall" -> OPUS_BUFFER_TOO_SMALL
      [] code = "InternalError" -> OPUS_INTERNAL_ERROR
      [] code = "InvalidPacket" -> OPUS_INVALID_PACKET
      [] code = "Unimplemented" -> OPUS_UNIMPLEMENTED
      [] code = "InvalidState" -> OPUS_INVALID_STATE
      [] code = "AllocFail" -> OPUS_ALLOC_FAIL
      [] OTHER -> 0

\* A plausible slip: two arms of the match swapped.
ErrorCodeFromI32Swapped(number) ==
    CASE number = OPUS_BAD_ARG -> "BadArgument"
      [] number = OPUS_BUFFER_TOO_SMALL -> "BufferTooSmall"
      [] number = OPUS_INTERNAL_ERROR -> "InternalError"
      [] number = OPUS_INVALID_PACKET -> "InvalidState"
      [] number = OPUS_UNIMPLEMENTED -> "Unimplemented"
      [] number = OPUS_INVALID_STATE -> "InvalidPacket"
      [] number = OPUS_ALLOC_FAIL -> "AllocFail"
      [] OTHER -> "Unknown"

\* impl From<i32> for ErrorCode
ErrorCodeFromI32(number) ==
    CASE number = OPUS_BAD_ARG -> "BadArgument"
      [] number = OPUS_BUFFER_TOO_SMALL -> "BufferTooSmall"
      [] number = OPUS_INTERNAL_ERROR -> "InternalError"
      [] number = OPUS_INVALID_PACKET -> "InvalidPacket"
      [] number = OPUS_UNIMPLEMENTED -> "Unimplemented"
      [] number = OPUS_INVALID_STATE -> "InvalidState"
      [] number = OPUS_ALLOC_FAIL -> "AllocFail"
      [] OTHER -> "Unknown"

\* pub fn try_map_opus_error
try_map_opus_error(ffi_return_value) ==
    IF ffi_return_value < 0
    THEN ErrorFromErrorCode(ErrorCodeFromI32(ffi_return_value))
    ELSE OkI32(ffi_return_value)

-----------------------------------------------------------------------------
(* lib.rs: the enums and their conversions from the native integer.        *)

SampleRates == {8000, 12000, 16000, 24000, 48000}

ChannelsSet == {"Auto", "Mono", "Stereo"}

\* `channels as i32`
ChannelsAsI32(channels) ==
    CASE channels = "Auto" -> OPUS_AUTO
      [] channels = "Mono" -> 1
      [] channels = "Stereo" -> 2

\* impl TryFrom<i32> for Channels
ChannelsTryFrom(value) ==
    CASE value = OPUS_AUTO -> OkEnum("Auto")
      [] value = 1 -> OkEnum("Mono")
      [] value = 2 -> OkEnum("Stereo")
      [] OTHER -> ErrWith("InvalidChannels", value)

\* `signal as i32` (enum Signal, #[repr(i32)])
SignalAsI32(signal) ==
    CASE signal = "Auto" -> OPUS_AUTO
      [] signal = "Voice" -> OPUS_SIGNAL_VOICE
      [] signal = "Music" -> OPUS_SIGNAL_MUSIC

\* A plausible slip: two arms of the match exchanged.
SignalTryFromSwapped(value) ==
    CASE value = OPUS_AUTO -> OkEnum("Auto")
      [] value = OPUS_SIGNAL_VOICE -> OkEnum("Music")
      [] value = OPUS_SIGNAL_MUSIC -> OkEnum("Voice")
      [] OTHER -> ErrWith("InvalidSignal", value)

\* impl TryFrom<i32> for Signal
SignalTryFrom(value) ==
    CASE value = OPUS_AUTO -> OkEnum("Auto")
      [] value = OPUS_SIGNAL_VOICE -> OkEnum("Voice")
      [] value = OPUS_SIGNAL_MUSIC -> OkEnum("Music")
      [] OTHER -> ErrWith("InvalidSignal", value)

\* `application as i32` (enum Application, #[repr(i32)])
ApplicationAsI32(application) ==
    CASE application = "Voip" -> OPUS_APPLICATION_VOIP
      [] application = "Audio" -> OPUS_APPLICATION_AUDIO
      [] application = "LowDelay" -> OPUS_APPLICATION_RESTRICTED_LOWDELAY

\* impl TryFrom<i32> for Application
ApplicationTryFrom(value) ==
    CASE value = OPUS_APPLICATION_VOIP -> OkEnum("Voip")
      [] value = OPUS_APPLICATION_AUDIO -> OkEnum("Audio")
      [] value = OPUS_APPLICATION_RESTRICTED_LOWDELAY -> OkEnum("LowDelay")
      [] OTHER -> Err("InvalidApplication")

\* A plausible slip: two arms of the match exchanged.
BandwidthTryFromSwapped(value) ==
    CASE value = OPUS_AUTO -> OkEnum("Auto")
      [] value = OPUS_BANDWIDTH_NARROWBAND -> OkEnum("Mediumband")
      [] value = OPUS_BANDWIDTH_MEDIUMBAND -> OkEnum("Narrowband")
      [] value = OPUS_BANDWIDTH_WIDEBAND -> OkEnum("Wideband")
      [] value = OPUS_BANDWIDTH_SUPERWIDEBAND -> OkEnum("Superwideband")
      [] value = OPUS_BANDWIDTH_FULLBAND -> OkEnum("Fullband")
      [] OTHER -> ErrWith("InvalidBandwidth", value)

\* impl TryFrom<i32> for Bandwidth
BandwidthTryFrom(value) ==
    CASE value = OPUS_AUTO -> OkEnum("Auto")
      [] value = OPUS_BANDWIDTH_NARROWBAND -> OkEnum("Narrowband")
      [] value = OPUS_BANDWIDTH_MEDIUMBAND -> OkEnum("Mediumband")
      [] value = OPUS_BANDWIDTH_WIDEBAND -> OkEnum("Wideband")
      [] value = OPUS_BANDWIDTH_SUPERWIDEBAND -> OkEnum("Superwideband")
      [] value = OPUS_BANDWIDTH_FULLBAND -> OkEnum("Fullband")
      [] OTHER -> ErrWith("InvalidBandwidth", value)

\* `bandwidth as i32` (enum Bandwidth, #[repr(i32)])
BandwidthAsI32(bandwidth) ==
    CASE bandwidth = "Auto" -> OPUS_AUTO
      [] bandwidth = "Narrowband" -> OPUS_BANDWIDTH_NARROWBAND
      [] bandwidth = "Mediumband" -> OPUS_BANDWIDTH_MEDIUMBAND
      [] bandwidth = "Wideband" -> OPUS_BANDWIDTH_WIDEBAND
      [] bandwidth = "Superwideband" -> OPUS_BANDWIDTH_SUPERWIDEBAND
      [] bandwidth = "Fullband" -> OPUS_BANDWIDTH_FULLBAND

\* `sample_rate as i32` (enum SampleRate, #[repr(i32)])
SampleRateAsI32(sample_rate) ==
    CASE sample_rate = "Hz8000" -> 8000
      [] sample_rate = "Hz12000" -> 12000
      [] sample_rate = "Hz16000" -> 16000
      [] sample_rate = "Hz24000" -> 24000
      [] sample_rate = "Hz48000" -> 48000

\* A plausible slip: the fallback arm copied from Bandwidth with its error.
SampleRateTryFromAsBandwidth(value) ==
    CASE value = 8000 -> OkEnum("Hz8000")
      [] value = 12000 -> OkEnum("Hz12000")
      [] value = 16000 -> OkEnum("Hz16000")
      [] value = 24000 -> OkEnum("Hz24000")
      [] value = 48000 -> OkEnum("Hz48000")
      [] OTHER -> ErrWith("InvalidBandwidth", value)

\* impl TryFrom<i32> for SampleRate
SampleRateTryFrom(value) ==
    CASE value = 8000 -> OkEnum("Hz8000")
      [] value = 12000 -> OkEnum("Hz12000")
      [] value = 16000 -> OkEnum("Hz16000")
      [] value = 24000 -> OkEnum("Hz24000")
      [] value = 48000 -> OkEnum("Hz48000")
      [] OTHER -> ErrWith("InvalidSampleRate", value)

\* Ok(Bitrate::BitsPerSecond(bits))
OkBitsPerSecond(bits) == Result(TRUE, "enum", bits, UZero, "BitsPerSecond")

\* impl TryFrom<i32> for Bitrate: the fallback arm returns
\* Error::InvalidBandwidth.
BitrateTryFrom(value) ==
    CASE value = OPUS_AUTO -> OkEnum("Auto")
      [] value = OPUS_BITRATE_MAX -> OkEnum("Max")
      [] value > 0 -> OkBitsPerSecond(value)
      [] OTHER -> ErrWith("InvalidBandwidth", value)

\* The enums that convert from the native integer, with their variants.
EnumTypes == {"Signal", "Application", "Channels", "Bandwidth", "SampleRate"}

VariantsOf(ty) ==
    CASE ty = "Signal" -> {"Auto", "Voice", "Music"}
      [] ty = "Application" -> {"Voip", "Audio", "LowDelay"}
      [] ty = "Channels" -> ChannelsSet
      [] ty = "Bandwidth" ->
            {"Auto", "Narrowband", "Mediumband", "Wideband", "Superwideband", "Fullband"}
      [] ty = "SampleRate" -> {"Hz8000", "Hz12000", "Hz16000", "Hz24000", "Hz48000"}

\* `variant as i32`
EnumAsI32(ty, variant) ==
    CASE ty = "Signal" -> SignalAsI32(variant)
      [] ty = "Application" -> ApplicationAsI32(variant)
      [] ty = "Channels" -> ChannelsAsI32(variant)
      [] ty = "Bandwidth" -> BandwidthAsI32(variant)
      [] ty = "SampleRate" -> SampleRateAsI32(variant)

\* <ty>::try_from(value)
EnumTryFrom(ty, value) ==
    CASE ty = "Signal" -> SignalTryFrom(value)
      [] ty = "Application" -> ApplicationTryFrom(value)
      [] ty = "Channels" -> ChannelsTryFrom(value)
      [] ty = "Bandwidth" -> BandwidthTryFrom(value)
      [] ty = "SampleRate" -> SampleRateTryFrom(value)

-----------------------------------------------------------------------------
(* packet.rs, lib.rs: the validated buffers.  A caller's buffer is its     *)
(* address and its length; a view is the borrowed slice itself.            *)

NoBuf == Buffer(0, UZero)

\* The two ways a caller hands a buffer over: a slice or a Vec.
BufSources == {"slice", "vec"}

\* A plausible slip: the bound checked with >= instead of >.
packet_len_check_off_by_one(len) ==
    IF UIsZero(len) THEN Err("EmptyPacket")
    ELSE IF UExceedsI32Max(len) \/ len = I32AsUsize(I32_MAX) THEN Err("PacketTooLarge")
    ELSE OkI32(UAsI32(len))

\* fn packet_len_check(packet_buffer: &[u8]) -> Result<i32>
packet_len_check(len) ==
    IF UIsZero(len) THEN Err("EmptyPacket")
    ELSE IF UExceedsI32Max(len) THEN Err("PacketTooLarge")
    ELSE OkI32(UAsI32(len))

\* `check.map(|_| View(buf))`
Converted(check, buf) ==
    Conversion(check.ok, IF check.ok THEN buf ELSE NoBuf, check)

\* impl TryInto<Packet> for &[u8]: packet_len_check(self).map(|_| Packet(self))
PacketFromSlice(buf) == Converted(packet_len_check(buf.len), buf)

\* impl TryInto<Packet> for &Vec<u8>: self[..].try_into()
PacketFromVec(buf) == PacketFromSlice(buf)

PacketTryFrom(src, buf) ==
    IF src = "vec" THEN PacketFromVec(buf) ELSE PacketFromSlice(buf)

\* Packet::i32_len: self.0.len() as i32
PacketI32Len(view) == UAsI32(view.len)

\* A plausible slip: only the upper bound is checked, as for samples, so
\* that an empty buffer becomes a MutPacket.
MutPacketFromSliceAsSignals(buf) ==
    Converted(IF UExceedsI32Max(buf.len) THEN Err("PacketTooLarge") ELSE OkUnit, buf)

\* impl TryInto<MutPacket> for &mut [u8]
MutPacketFromSlice(buf) == Converted(packet_len_check(buf.len), buf)

\* impl TryInto<MutPacket> for &mut Vec<u8>: self.as_mut_slice().try_into()
MutPacketFromVec(buf) == MutPacketFromSlice(buf)

MutPacketTryFrom(src, buf) ==
    IF src = "vec" THEN MutPacketFromVec(buf) ELSE MutPacketFromSlice(buf)

\* MutPacket::i32_len: packet_len_check(&self.0)
MutPacketI32Len(view) == packet_len_check(view.len)

\* A plausible slip: the packet check reused for samples, so that an empty
\* sample buffer is refused.
MutSignalsFromSliceAsPacket(buf) ==
    Converted(IF UIsZero(buf.len) \/ UExceedsI32Max(buf.len)
              THEN Err("SignalsTooLarge") ELSE OkUnit, buf)

\* impl TryFrom<&mut [T]> for MutSignals
MutSignalsFromSlice(buf) ==
    Converted(IF UExceedsI32Max(buf.len) THEN Err("SignalsTooLarge") ELSE OkUnit, buf)

\* impl TryFrom<&mut Vec<T>> for MutSignals: value.as_mut_slice().try_into()
MutSignalsFromVec(buf) == MutSignalsFromSlice(buf)

MutSignalsTryFrom(src, buf) ==
    IF src = "vec" THEN MutSignalsFromVec(buf) ELSE MutSignalsFromSlice(buf)

\* MutSignals::i32_len: self.0.len() as i32
MutSignalsI32Len(view) == UAsI32(view.len)

-----------------------------------------------------------------------------
(* The inputs of the operations.                                           *)

\* The early return of `let x = x.try_into()?;`: no native call was made.
Failed(error) == Did(<< >>, error)

NoOp == Record("none", 0, "slice", NoBuf, << >>, << >>, Did(<< >>, OkUnit), NoBuf, OkUnit)

\* The status values a native call is seen to return: the documented codes
\* and their neighbours, small counts, OPUS_AUTO and the two ends of i32.
StatusReturns ==
    ((OPUS_ALLOC_FAIL - MaxProbe)..(MaxProbe + 1)) \cup {OPUS_AUTO, I32_MIN, I32_MAX}

\* The values opus_packet_get_bandwidth is seen to return: the bandwidths
\* and their neighbours, OPUS_AUTO and two status codes.
BandwidthReturns ==
    ((OPUS_BANDWIDTH_NARROWBAND - MaxProbe)..(OPUS_BANDWIDTH_FULLBAND + MaxProbe))
    \cup {OPUS_AUTO, OPUS_INVALID_PACKET, OPUS_BAD_ARG}

NativeReturns == StatusReturns \cup BandwidthReturns

\* The buffers of a caller.
ProbeBufs == [ptr : 1..2, len : ProbeLens]

\* The same lengths at one address.
ProbeBufsAt1 == [ptr : {1}, len : ProbeLens]

-----------------------------------------------------------------------------
(* packet.rs: the packet functions that need no handle.  `native` is the   *)
(* value the engine returns when it is called.                             *)

\* opus_packet_get_bandwidth: the engine reads the packet's first byte, whose
\* high bits name the mode and the bandwidth.  With bit 7 set the two bits
\* below it count up from mediumband, a count of 0 standing for narrowband;
\* with bits 6 and 5 set bit 4 tells fullband from superwideband; any other
\* byte counts bits 6 and 5 up from narrowband.
opus_packet_get_bandwidth(byte) ==
    LET bits65 == (byte \div 2^5) % 2^2 IN
    IF byte >= 2^7
    THEN IF bits65 = 0 THEN OPUS_BANDWIDTH_NARROWBAND
         ELSE OPUS_BANDWIDTH_MEDIUMBAND + bits65
    ELSE IF bits65 = 2^2 - 1
    THEN IF (byte \div 2^4) % 2 = 1 THEN OPUS_BANDWIDTH_FULLBAND
         ELSE OPUS_BANDWIDTH_SUPERWIDEBAND
    ELSE OPUS_BANDWIDTH_NARROWBAND + bits65

\* pub fn bandwidth
bandwidth(src, buf, native) ==
    LET packet == PacketTryFrom(src, buf) IN
    IF ~packet.ok THEN Failed(packet.err)
    ELSE Did(<<NCall("opus_packet_get_bandwidth", 0, <<packet.view.ptr>>, native)>>,
             BandwidthTryFrom(native))

\* pub fn samples_per_frame
samples_per_frame(src, buf, sample_rate, native) ==
    LET packet == PacketTryFrom(src, buf) IN
    IF ~packet.ok THEN Failed(packet.err)
    ELSE Did(<<NCall("opus_packet_get_samples_per_frame", 0,
                     <<packet.view.ptr, sample_rate>>, native)>>,
             OkUsize(I32AsUsize(native)))

\* pub fn nb_samples
nb_samples(src, buf, sample_rate, native) ==
    LET packet == PacketTryFrom(src, buf)
        mapped == try_map_opus_error(native)
    IN  IF ~packet.ok THEN Failed(packet.err)
        ELSE Did(<<NCall("opus_packet_get_nb_samples", 0,
                         <<packet.view.ptr, PacketI32Len(packet.view), sample_rate>>,
                         native)>>,
                 IF mapped.ok THEN OkUsize(I32AsUsize(mapped.i)) ELSE mapped)

\* pub fn nb_channels
nb_channels(src, buf, native) ==
    LET packet == PacketTryFrom(src, buf) IN
    IF ~packet.ok THEN Failed(packet.err)
    ELSE Did(<<NCall("opus_packet_get_nb_channels", 0, <<packet.view.ptr>>, native)>>,
             ChannelsTryFrom(native))

\* pub fn nb_frames
nb_frames(src, buf, native) ==
    LET packet == PacketTryFrom(src, buf)
        mapped == try_map_opus_error(native)
    IN  IF ~packet.ok THEN Failed(packet.err)
        ELSE Did(<<NCall("opus_packet_get_nb_frames", 0,
                         <<packet.view.ptr, PacketI32Len(packet.view)>>, native)>>,
                 IF mapped.ok THEN OkUsize(I32AsUsize(mapped.i)) ELSE mapped)

\* `.map(|_| ())`
MapUnit(result) == IF result.ok THEN OkUnit ELSE result

\* `data.as_mut_ptr(), data.i32_len()?, ...` inside the native call's
\* arguments: the `?` returns before the call is made.
PadCall(data, fn, rest, native) ==
    LET len == MutPacketI32Len(data.view) IN
    IF ~data.ok THEN Failed(data.err)
    ELSE IF ~len.ok THEN Failed(len)
    ELSE Did(<<NCall(fn, 0, <<data.view.ptr, len.i>> \o rest, native)>>,
             MapUnit(try_map_opus_error(native)))

-----------------------------------------------------------------------------
(* repacketizer.rs: the pad and unpad functions.                           *)

\* pub fn multistream_packet_pad
multistream_packet_pad(src, buf, new_len, nb_streams, native) ==
    PadCall(MutPacketTryFrom(src, buf), "opus_multistream_packet_pad",
            <<UAsI32(new_len), UAsI32(nb_streams)>>, native)

\* pub fn multistream_packet_unpad
multistream_packet_unpad(src, buf, nb_streams, native) ==
    PadCall(MutPacketTryFrom(src, buf), "opus_multistream_packet_unpad",
            <<UAsI32(nb_streams)>>, native)

\* pub fn packet_pad
packet_pad(src, buf, new_len, native) ==
    PadCall(MutPacketTryFrom(src, buf), "opus_packet_pad", <<new_len>>, native)

\* pub fn packet_unpad
packet_unpad(src, buf, native) ==
    PadCall(MutPacketTryFrom(src, buf), "opus_packet_unpad", << >>, native)

-----------------------------------------------------------------------------
(* The native engine's resources.  A pointer is 0 (null) or the address of *)
(* a resource; a resource is free, allocated or destroyed, counts the      *)
(* destroy calls made on it, remembers a native call made on it after it   *)
(* was destroyed, and holds the codec settings or the accumulated frames.  *)

Pointers == 1..MaxHandles

Handles == 1..MaxHandles

\* The settings of a new resource, as the crate's tests find them: the
\* toggles off but for vbr and vbr_constraint, signal and force_channels
\* Auto, the application the tests construct with.
DefaultCfg ==
    Cfg(0, 0, 0, LSB_DEPTH_MAX, 0, 1, 1, 0, 0, 0, OPUS_AUTO, OPUS_AUTO,
        OPUS_APPLICATION_AUDIO)

FreeResource == Resource("free", "none", 0, FALSE, 0, DefaultCfg)

NoHandle == Handle("none", "unborn", 0, "Mono")

LiveHandle(kind, pointer, channels) == Handle(kind, "live", pointer, channels)

AllocatedResource(kind) == Resource("allocated", kind, 0, FALSE, 0, DefaultCfg)

\* The resource behind a pointer can be used: it is allocated.
Usable(eng, p) == p \in Pointers /\ eng[p].state = "allocated"

\* A native call made on pointer p is remembered if p was destroyed before.
Touch(eng, p) ==
    IF p \in Pointers /\ eng[p].state = "destroyed"
    THEN [eng EXCEPT ![p].misuse = TRUE]
    ELSE eng

\* opus_repacketizer_cat: the engine appends the packet's frames (one frame
\* or more) and returns OPUS_OK, or rejects the packet with a negative status
\* and leaves the accumulator alone.  On a pointer that is not a live
\* resource the call is undefined: any value comes back.
CatOutcomes(eng, p, errors) ==
    IF Usable(eng, p)
    THEN { [out |-> OPUS_OK, frames |-> eng[p].frames + k] :
                k \in 1..(MaxFrames - eng[p].frames) }
         \cup { [out |-> n, frames |-> eng[p].frames] : n \in errors }
    ELSE { [out |-> n, frames |-> 0] : n \in errors \cup {OPUS_OK} }

\* opus_repacketizer_get_nb_frames: the accumulated frame count.
NbFramesOutcomes(eng, p) ==
    IF Usable(eng, p) THEN {eng[p].frames} ELSE {0, MaxFrames, OPUS_BAD_ARG}

\* opus_repacketizer_cat of a packet of nb frames: the frames are appended
\* and OPUS_OK returned if the packet is well formed and the accumulator
\* stays within its limit of frames (MaxFrames here); if not the packet is
\* refused with OPUS_INVALID_PACKET and nothing is appended.
opus_repacketizer_cat(eng, p, nb) ==
    IF ~Usable(eng, p) THEN CatOutcomes(eng, p, {OPUS_INVALID_PACKET})
    ELSE { [out |-> OPUS_INVALID_PACKET, frames |-> eng[p].frames] }
         \cup IF eng[p].frames + nb > MaxFrames THEN {}
              ELSE { [out |-> OPUS_OK, frames |-> eng[p].frames + nb] }

\* opus_repacketizer_out_range: the frames begin .. end - 1 of the
\* accumulator are written as one packet and its size returned (here a byte
\* for each frame and one in front); OPUS_BAD_ARG unless
\* 0 <= begin < end <= the accumulated count, OPUS_BUFFER_TOO_SMALL if maxlen
\* is less than the size.  opus_repacketizer_out is the range of all frames.
opus_repacketizer_out_range(eng, p, begin, end, maxlen) ==
    IF ~Usable(eng, p) THEN {OPUS_OK, OPUS_BAD_ARG}
    ELSE IF ~(0 <= begin /\ begin < end /\ end <= eng[p].frames) THEN {OPUS_BAD_ARG}
    ELSE IF maxlen < (end - begin) + 1 THEN {OPUS_BUFFER_TOO_SMALL}
    ELSE {(end - begin) + 1}

SetFrames(eng, p, frames) ==
    IF Usable(eng, p) THEN [eng EXCEPT ![p].frames = frames] ELSE eng

-----------------------------------------------------------------------------
(* repacketizer.rs: Repacketizer.                                          *)

\* pub fn nb_frames(&self)
repacketizer_nb_frames(self, native) ==
    DidOn(<<NCall("opus_repacketizer_get_nb_frames", self.pointer, << >>, native)>>,
          OkUsize(I32AsUsize(native)),
          Touch(engine, self.pointer))

\* A plausible slip: the accumulator is emptied once its frames were emitted.
repacketizer_out_draining(self, src, buf, max_len, native) ==
    LET data_out == MutPacketTryFrom(src, buf) IN
    IF ~data_out.ok THEN DidOn(<< >>, data_out.err, engine)
    ELSE DidOn(<<NCall("opus_repacketizer_out", self.pointer,
                       <<data_out.view.ptr, max_len>>, native)>>,
               MapUnit(try_map_opus_error(native)),
               SetFrames(Touch(engine, self.pointer), self.pointer, 0))

\* pub fn repacketizer_out
repacketizer_out(self, src, buf, max_len, native) ==
    LET data_out == MutPacketTryFrom(src, buf) IN
    IF ~data_out.ok THEN DidOn(<< >>, data_out.err, engine)
    ELSE DidOn(<<NCall("opus_repacketizer_out", self.pointer,
                       <<data_out.view.ptr, max_len>>, native)>>,
               MapUnit(try_map_opus_error(native)),
               Touch(engine, self.pointer))

\* A plausible slip: begin and end change places in the native call.
repacketizer_out_range_swapped(self, begin, end, src, buf, max_len, native) ==
    LET data_out == MutPacketTryFrom(src, buf) IN
    IF ~data_out.ok THEN DidOn(<< >>, data_out.err, engine)
    ELSE DidOn(<<NCall("opus_repacketizer_out_range", self.pointer,
                       <<end, begin, data_out.view.ptr, max_len>>, native)>>,
               MapUnit(try_map_opus_error(native)),
               Touch(engine, self.pointer))

\* pub fn repacketizer_out_range
repacketizer_out_range(self, begin, end, src, buf, max_len, native) ==
    LET data_out == MutPacketTryFrom(src, buf) IN
    IF ~data_out.ok THEN DidOn(<< >>, data_out.err, engine)
    ELSE DidOn(<<NCall("opus_repacketizer_out_range", self.pointer,
                       <<begin, end, data_out.view.ptr, max_len>>, native)>>,
               MapUnit(try_map_opus_error(native)),
               Touch(engine, self.pointer))

\* A plausible slip: the status of the native call is dropped.
repacketizer_cat_unmapped(self, src, buf, outcome) ==
    LET data == PacketTryFrom(src, buf) IN
    IF ~data.ok THEN DidOn(<< >>, data.err, engine)
    ELSE DidOn(<<NCall("opus_repacketizer_cat", self.pointer,
                       <<data.view.ptr, PacketI32Len(data.view)>>, outcome.out)>>,
               OkUnit,
               SetFrames(Touch(engine, self.pointer), self.pointer, outcome.frames))

\* A plausible slip: the engine is called before the packet is validated.
repacketizer_cat_unchecked(self, src, buf, outcome) ==
    DidOn(<<NCall("opus_repacketizer_cat", self.pointer,
                  <<buf.ptr, UAsI32(buf.len)>>, outcome.out)>>,
          MapUnit(try_map_opus_error(outcome.out)),
          SetFrames(Touch(engine, self.pointer), self.pointer, outcome.frames))

\* A plausible slip: the accumulator is started afresh before the packet is
\* handed over, so that it holds the frames of the last packet taken only.
repacketizer_cat_restarting(self, src, buf, outcome) ==
    LET data == PacketTryFrom(src, buf) IN
    IF ~data.ok THEN DidOn(<< >>, data.err, engine)
    ELSE DidOn(<<NCall("opus_repacketizer_cat", self.pointer,
                       <<data.view.ptr, PacketI32Len(data.view)>>, outcome.out)>>,
               MapUnit(try_map_opus_error(outcome.out)),
               SetFrames(Touch(engine, self.pointer), self.pointer,
                         IF Usable(engine, self.pointer)
                         THEN outcome.frames - engine[self.pointer].frames
                         ELSE outcome.frames))

\* pub fn repacketizer_cat
repacketizer_cat(self, src, buf, outcome) ==
    LET data == PacketTryFrom(src, buf) IN
    IF ~data.ok THEN DidOn(<< >>, data.err, engine)
    ELSE DidOn(<<NCall("opus_repacketizer_cat", self.pointer,
                       <<data.view.ptr, PacketI32Len(data.view)>>, outcome.out)>>,
               MapUnit(try_map_opus_error(outcome.out)),
               SetFrames(Touch(engine, self.pointer), self.pointer, outcome.frames))

-----------------------------------------------------------------------------
(* softclip.rs: SoftClip.                                                  *)

\* i32 `/`: the quotient rounded towards zero.  For a negative dividend a
\* the magnitude |a| is below + 1, so that i32::MIN is divided without
\* being negated.
I32Div(a, b) ==
    LET absb == IF b < 0 THEN -b ELSE b
        below == -(a + 1)
        carry == IF below % absb = absb - 1 THEN 1 ELSE 0
    IN  IF a >= 0 THEN (IF b > 0 THEN a \div absb ELSE -(a \div absb))
        ELSE IF b > 0 THEN -(below \div absb) - carry
        ELSE (below \div absb) + carry

\* The values one slot of the filter memory takes (standing for f32 values).
MemoryValues == 0..MaxProbe

\* pub fn new(channels: Channels)
SoftClipNew(channels) == SoftClip(channels, <<0, 0>>)

\* opus_pcm_soft_clip(x, N, C, declip_mem): the engine brings the N frames
\* of C samples that start at x within [-1, 1] (here each is clamped, which
\* stands for the engine's curve) and touches no sample after them; with
\* fewer than one frame or fewer than one channel it returns at once.  The
\* samples are integers standing for f32 values.
opus_pcm_soft_clip(x, N, C) ==
    IF C < 1 \/ N < 1 THEN x
    ELSE [k \in 1..Len(x) |->
            IF k > N * C THEN x[k]
            ELSE IF x[k] > 1 THEN 1 ELSE IF x[k] < -1 THEN -1 ELSE x[k]]

\* pub fn apply: `x` are the samples in the buffer (empty where only the
\* buffer's length is followed), `memory` is the filter memory as the engine
\* leaves it.  The call's `out` is the buffer after the call.
softclip_apply(self, src, buf, x, memory) ==
    LET signals == MutSignalsTryFrom(src, buf)
        frame_size == I32Div(MutSignalsI32Len(signals.view),
                             ChannelsAsI32(self.channels))
    IN
    IF ~signals.ok
    THEN DidClip(<< >>, signals.err, self.memory)
    ELSE DidClip(<<NCall("opus_pcm_soft_clip", 0,
                         <<signals.view.ptr, frame_size,
                           ChannelsAsI32(self.channels)>>,
                         opus_pcm_soft_clip(x, frame_size,
                                            ChannelsAsI32(self.channels)))>>,
                 OkUnit, memory)

-----------------------------------------------------------------------------
(* The native engine's create, destroy and ctl functions.                  *)

\* The statuses a create function is followed with.
CreateStatuses == {OPUS_OK, OPUS_BAD_ARG, OPUS_ALLOC_FAIL}

\* opus_encoder_create, opus_decoder_create: the engine reports a pointer,
\* null or the address of a resource it allocated, and a status.  The crate
\* takes every pair of the two, so every pair is followed.
CreateOutcomes(eng, statuses) ==
    LET free == { p \in Pointers : eng[p].state = "free" }
        fresh == IF free = {} THEN {0}
                 ELSE {0, CHOOSE p \in free : \A q \in free : p <= q}
    IN  { Created(p, status) : p \in fresh, status \in statuses }

\* opus_encoder_create as Encoder::new documents it and its test finds it:
\* a sampling rate, a channel count or an application that is none of the
\* engine's yields no resource and OPUS_BAD_ARG (Channels::Auto is handed
\* over as OPUS_AUTO, which is no channel count); any other call yields a
\* resource and OPUS_OK.
opus_encoder_create(eng, Fs, channels, application) ==
    IF /\ Fs \in SampleRates
       /\ channels \in {1, 2}
       /\ application \in {OPUS_APPLICATION_VOIP, OPUS_APPLICATION_AUDIO,
                           OPUS_APPLICATION_RESTRICTED_LOWDELAY}
    THEN Created(CHOOSE p \in Pointers :
                    /\ eng[p].state = "free"
                    /\ \A q \in Pointers : eng[q].state = "free" => p <= q,
                 OPUS_OK)
    ELSE Created(0, OPUS_BAD_ARG)

\* The engine after it allocated the resource behind `pointer`.
Allocate(eng, pointer, kind) ==
    IF pointer \in Pointers
    THEN [eng EXCEPT ![pointer] = AllocatedResource(kind)]
    ELSE eng

\* opus_*_destroy: frees the resource; on a null pointer it does nothing, on
\* a resource already destroyed it is a double free.
Destroy(eng, p) ==
    IF p \notin Pointers THEN eng
    ELSE [eng EXCEPT ![p].state = "destroyed",
                     ![p].destroys = @ + 1,
                     ![p].misuse = @ \/ eng[p].state = "destroyed"]

\* The settings with their get and set requests.
CtlRequests ==
    { <<"gain", "OPUS_GET_GAIN_REQUEST", "OPUS_SET_GAIN_REQUEST">>,
      <<"complexity", "OPUS_GET_COMPLEXITY_REQUEST", "OPUS_SET_COMPLEXITY_REQUEST">>,
      <<"packet_loss_perc", "OPUS_GET_PACKET_LOSS_PERC_REQUEST",
        "OPUS_SET_PACKET_LOSS_PERC_REQUEST">>,
      <<"lsb_depth", "OPUS_GET_LSB_DEPTH_REQUEST", "OPUS_SET_LSB_DEPTH_REQUEST">>,
      <<"inband_fec", "OPUS_GET_INBAND_FEC_REQUEST", "OPUS_SET_INBAND_FEC_REQUEST">>,
      <<"vbr", "OPUS_GET_VBR_REQUEST", "OPUS_SET_VBR_REQUEST">>,
      <<"vbr_constraint", "OPUS_GET_VBR_CONSTRAINT_REQUEST",
        "OPUS_SET_VBR_CONSTRAINT_REQUEST">>,
      <<"dtx", "OPUS_GET_DTX_REQUEST", "OPUS_SET_DTX_REQUEST">>,
      <<"prediction_disabled", "OPUS_GET_PREDICTION_DISABLED_REQUEST",
        "OPUS_SET_PREDICTION_DISABLED_REQUEST">>,
      <<"phase_inversion_disabled", "OPUS_GET_PHASE_INVERSION_DISABLED_REQUEST",
        "OPUS_SET_PHASE_INVERSION_DISABLED_REQUEST">>,
      <<"signal", "OPUS_GET_SIGNAL_REQUEST", "OPUS_SET_SIGNAL_REQUEST">>,
      <<"force_channels", "OPUS_GET_FORCE_CHANNELS_REQUEST",
        "OPUS_SET_FORCE_CHANNELS_REQUEST">>,
      <<"application", "OPUS_GET_APPLICATION_REQUEST",
        "OPUS_SET_APPLICATION_REQUEST">> }

GetRequests == { t[2] : t \in CtlRequests }

\* The setting a ctl request names.
SettingOf(request) == (CHOOSE t \in CtlRequests : request \in {t[2], t[3]})[1]

\* The kinds of resource that have the setting.
KindOfSetting(setting) ==
    IF setting = "gain" THEN {"Decoder"}
    ELSE IF setting = "phase_inversion_disabled" THEN {"Decoder", "Encoder"}
    ELSE {"Encoder"}

\* The values the engine accepts for a setting.
Accepts(setting, value) ==
    CASE setting = "gain" -> GAIN_MIN <= value /\ value <= GAIN_MAX
      [] setting = "complexity" -> 0 <= value /\ value <= COMPLEXITY_MAX
      [] setting = "packet_loss_perc" -> 0 <= value /\ value <= PACKET_LOSS_PERC_MAX
      [] setting = "lsb_depth" -> LSB_DEPTH_MIN <= value /\ value <= LSB_DEPTH_MAX
      [] setting = "signal" ->
            value \in {OPUS_AUTO, OPUS_SIGNAL_VOICE, OPUS_SIGNAL_MUSIC}
      [] setting = "force_channels" -> value \in {OPUS_AUTO, 1, 2}
      [] setting = "application" ->
            value \in {OPUS_APPLICATION_VOIP, OPUS_APPLICATION_AUDIO,
                       OPUS_APPLICATION_RESTRICTED_LOWDELAY}
      [] OTHER -> value \in {0, 1}

\* opus_encoder_ctl, opus_decoder_ctl on the resource behind p: a get writes
\* the setting back, a set stores an accepted value and refuses any other
\* with OPUS_BAD_ARG, leaving the setting alone; a request the resource does
\* not know is OPUS_UNIMPLEMENTED.  On a pointer that is not a live resource
\* of that kind the call is undefined: any status with any value comes back.
opus_ctl(eng, p, kind, request, value) ==
    LET setting == SettingOf(request) IN
    IF ~(Usable(eng, p) /\ eng[p].kind = kind)
    THEN { CtlOutcome(out, DefaultCfg, v) :
                out \in {OPUS_OK, OPUS_INVALID_STATE}, v \in {0, value} }
    ELSE IF kind \notin KindOfSetting(setting)
    THEN { CtlOutcome(OPUS_UNIMPLEMENTED, eng[p].cfg, value) }
    ELSE IF request \in GetRequests
    THEN { CtlOutcome(OPUS_OK, eng[p].cfg, eng[p].cfg[setting]) }
    ELSE IF Accepts(setting, value)
    THEN { CtlOutcome(OPUS_OK, [eng[p].cfg EXCEPT ![setting] = value], value) }
    ELSE { CtlOutcome(OPUS_BAD_ARG, eng[p].cfg, value) }

\* The ctl call of a getter: the argument is `&mut value`, with value 0
\* before the call.  A get request writes the setting through it.  A set
\* request reads an integer where the pointer was passed, which is undefined:
\* the engine sees any i32, accepts or refuses it, and writes nothing back.
opus_ctl_get(eng, p, kind, request) ==
    IF request \in GetRequests THEN opus_ctl(eng, p, kind, request, 0)
    ELSE UNION { { CtlOutcome(outcome.out, outcome.cfg, 0) :
                        outcome \in opus_ctl(eng, p, kind, request, seen) } :
                    seen \in {0, 1, I32_MAX} }

\* A plausible slip: the settings are kept once for all resources.
SetCfgOfAll(eng, p, cfg) ==
    [q \in Pointers |-> IF Usable(eng, q) THEN [eng[q] EXCEPT !.cfg = cfg] ELSE eng[q]]

\* The engine after a ctl call on p.
SetCfg(eng, p, cfg) ==
    IF Usable(eng, p) THEN [eng EXCEPT ![p].cfg = cfg] ELSE eng

\* `.map(|v| v as u8)`
MapU8(result) == IF result.ok THEN OkI32(I32AsU8(result.i)) ELSE result

OkHandle == Result(TRUE, "handle", 0, UZero, "")

-----------------------------------------------------------------------------
(* coder/decoder.rs: Decoder.  An operation that calls the engine yields   *)
(* what it did for each outcome of the native call.                        *)

\* pub fn new(sample_rate: SampleRate, channels: Channels)
decoder_new(sample_rate, channels, created) ==
    IF created.status = OPUS_OK \/ created.pointer # 0
    THEN Constructed(OkHandle, LiveHandle("Decoder", created.pointer, channels))
    ELSE Constructed(ErrorFromErrorCode(ErrorCodeFromI32(created.status)), NoHandle)

\* fn decoder_ctl_request(&self, request: i32)
decoder_ctl_request(self, request) ==
    { DidOn(<<NCall("opus_decoder_ctl", self.pointer, <<request>>, outcome.out)>>,
            IF try_map_opus_error(outcome.out).ok THEN OkI32(outcome.value)
            ELSE try_map_opus_error(outcome.out),
            SetCfg(Touch(engine, self.pointer), self.pointer, outcome.cfg)) :
        outcome \in opus_ctl_get(engine, self.pointer, "Decoder", request) }

\* fn set_decoder_ctl_request(&self, request: i32, value: i32)
set_decoder_ctl_request(self, request, value) ==
    { DidOn(<<NCall("opus_decoder_ctl", self.pointer, <<request, value>>, outcome.out)>>,
            MapUnit(try_map_opus_error(outcome.out)),
            SetCfg(Touch(engine, self.pointer), self.pointer, outcome.cfg)) :
        outcome \in opus_ctl(engine, self.pointer, "Decoder", request, value) }

\* A plausible slip: the getter issues the request of another value.
gain_by_other_request(self) == decoder_ctl_request(self, "OPUS_GET_LSB_DEPTH_REQUEST")

\* pub fn gain(&self)
gain(self) == decoder_ctl_request(self, "OPUS_GET_GAIN_REQUEST")

\* pub fn set_gain(&self, gain: i32)
set_gain(self, value) == set_decoder_ctl_request(self, "OPUS_SET_GAIN_REQUEST", value)

\* A plausible slip: a missing packet is refused like an empty one.
decode_none_refused(self, fn, input, output, fec, native) ==
    IF Len(input) = 0 THEN DidOn(<< >>, Err("EmptyPacket"), engine)
    ELSE DidOn(<<NCall(fn, self.pointer,
                       <<input[1].ptr, PacketI32Len(input[1]), output.ptr,
                         I32Div(MutSignalsI32Len(output), ChannelsAsI32(self.channels)),
                         IF fec THEN 1 ELSE 0>>,
                       native)>>,
               IF native < 0 THEN try_map_opus_error(native)
               ELSE OkUsize(I32AsUsize(native)),
               Touch(engine, self.pointer))

\* pub fn decode(&mut self, input: Option<Packet>, output: MutSignals<i16>,
\* fec: bool) with fn ffi::opus_decode, and pub fn decode_float, the same
\* on MutSignals<f32> with fn ffi::opus_decode_float.  `input` is << >> for
\* None and <<packet>> for Some(packet); `native` is what the engine returns.
decode(self, fn, input, output, fec, native) ==
    LET input_pointer == IF Len(input) = 0 THEN 0 ELSE input[1].ptr
        input_len == IF Len(input) = 0 THEN 0 ELSE PacketI32Len(input[1])
    IN  DidOn(<<NCall(fn, self.pointer,
                      <<input_pointer, input_len, output.ptr,
                        I32Div(MutSignalsI32Len(output), ChannelsAsI32(self.channels)),
                        IF fec THEN 1 ELSE 0>>,
                      native)>>,
              IF try_map_opus_error(native).ok THEN OkUsize(I32AsUsize(native))
              ELSE try_map_opus_error(native),
              Touch(engine, self.pointer))

\* A plausible slip: the handle is forgotten and its resource never released.
decoder_drop_leaking(self) == DidOn(<< >>, OkUnit, engine)

\* impl Drop for Decoder
decoder_drop(self) ==
    DidOn(<<NCall("opus_decoder_destroy", self.pointer, << >>, 0)>>, OkUnit,
          Destroy(engine, self.pointer))

-----------------------------------------------------------------------------
(* coder/encoder.rs: Encoder.                                              *)

\* A plausible slip: the status and the pointer are not looked at.
encoder_new_unchecked(sample_rate, channels, mode, created) ==
    Constructed(OkHandle, LiveHandle("Encoder", created.pointer, channels))

\* pub fn new(sample_rate: SampleRate, channels: Channels, mode: Application)
encoder_new(sample_rate, channels, mode, created) ==
    IF created.status = OPUS_OK \/ created.pointer # 0
    THEN Constructed(OkHandle, LiveHandle("Encoder", created.pointer, channels))
    ELSE Constructed(ErrorFromErrorCode(ErrorCodeFromI32(created.status)), NoHandle)

\* pub fn encode(&self, input: &[i16], output: &mut [u8]) with fn
\* ffi::opus_encode, and pub fn encode_float, the same on &[f32] with fn
\* ffi::opus_encode_float.  The slices are taken as they are and their
\* lengths cast: `input.len() as i32 / self.channels as i32` and
\* `output.len() as i32`.
encode(self, fn, input, output, native) ==
    DidOn(<<NCall(fn, self.pointer,
                  <<input.ptr,
                    I32Div(UAsI32(input.len), ChannelsAsI32(self.channels)),
                    output.ptr, UAsI32(output.len)>>,
                  native)>>,
          IF try_map_opus_error(native).ok THEN OkUsize(I32AsUsize(native))
          ELSE try_map_opus_error(native),
          Touch(engine, self.pointer))

\* pub fn encoder_ctl_request(&self, request: i32)
encoder_ctl_request(self, request) ==
    { DidOn(<<NCall("opus_encoder_ctl", self.pointer, <<request>>, outcome.out)>>,
            IF try_map_opus_error(outcome.out).ok THEN OkI32(outcome.value)
            ELSE try_map_opus_error(outcome.out),
            SetCfg(Touch(engine, self.pointer), self.pointer, outcome.cfg)) :
        outcome \in opus_ctl_get(engine, self.pointer, "Encoder", request) }

\* A plausible slip: the status of the native call is dropped.
set_encoder_ctl_request_unmapped(self, request, value) ==
    { DidOn(<<NCall("opus_encoder_ctl", self.pointer, <<request, value>>, outcome.out)>>,
            OkUnit,
            SetCfg(Touch(engine, self.pointer), self.pointer, outcome.cfg)) :
        outcome \in opus_ctl(engine, self.pointer, "Encoder", request, value) }

\* pub fn set_encoder_ctl_request(&mut self, request: i32, value: i32)
set_encoder_ctl_request(self, request, value) ==
    { DidOn(<<NCall("opus_encoder_ctl", self.pointer, <<request, value>>, outcome.out)>>,
            MapUnit(try_map_opus_error(outcome.out)),
            SetCfg(Touch(engine, self.pointer), self.pointer, outcome.cfg)) :
        outcome \in opus_ctl(engine, self.pointer, "Encoder", request, value) }

\* `.map(|v| v as u8)` on what a ctl request did
DidAsU8(dids) == { DidOn(did.calls, MapU8(did.result), did.eng) : did \in dids }

\* `.map(|_| ())` on what a ctl request did
DidAsUnit(dids) == { DidOn(did.calls, MapUnit(did.result), did.eng) : did \in dids }

\* pub fn complexity(&self)
complexity(self) ==
    DidAsU8(encoder_ctl_request(self, "OPUS_GET_COMPLEXITY_REQUEST"))

\* pub fn set_complexity(&mut self, complexity: u8)
set_complexity(self, value) ==
    set_encoder_ctl_request(self, "OPUS_SET_COMPLEXITY_REQUEST", value)

\* pub fn packet_loss_perc(&self)
packet_loss_perc(self) ==
    DidAsU8(encoder_ctl_request(self, "OPUS_GET_PACKET_LOSS_PERC_REQUEST"))

\* pub fn set_packet_loss_perc(&mut self, percentage: u8)
set_packet_loss_perc(self, percentage) ==
    DidAsUnit(
        set_encoder_ctl_request(self, "OPUS_SET_PACKET_LOSS_PERC_REQUEST", percentage))

\* pub fn lsb_depth(&self)
lsb_depth(self) ==
    DidAsU8(encoder_ctl_request(self, "OPUS_GET_LSB_DEPTH_REQUEST"))

\* pub fn set_lsb_depth(&mut self, lsb_depth: u8)
set_lsb_depth(self, value) ==
    DidAsUnit(set_encoder_ctl_request(self, "OPUS_SET_LSB_DEPTH_REQUEST", value))

\* `.map(|b| b == 1)` on what a ctl request did
DidAsBool(dids) ==
    { DidOn(did.calls,
            IF did.result.ok THEN OkBool(did.result.i = 1) ELSE did.result,
            did.eng) : did \in dids }

\* ffi::OPUS_GET_<setting>_REQUEST and ffi::OPUS_SET_<setting>_REQUEST
GetRequestOf(setting) == (CHOOSE t \in CtlRequests : t[1] = setting)[2]
SetRequestOf(setting) == (CHOOSE t \in CtlRequests : t[1] = setting)[3]

\* self.encoder_ctl_request(..) in an Encoder, self.decoder_ctl_request(..)
\* in a Decoder.
ctl_request(self, request) ==
    IF self.kind = "Decoder" THEN decoder_ctl_request(self, request)
    ELSE encoder_ctl_request(self, request)

\* self.set_encoder_ctl_request(..) or self.set_decoder_ctl_request(..)
set_ctl_request(self, request, value) ==
    IF self.kind = "Decoder" THEN set_decoder_ctl_request(self, request, value)
    ELSE set_encoder_ctl_request(self, request, value)

\* The boolean settings, and those with enable_ and disable_ methods.
Toggles ==
    {"inband_fec", "vbr", "vbr_constraint", "dtx", "prediction_disabled",
     "phase_inversion_disabled"}
Shorthands == {"inband_fec", "vbr", "vbr_constraint", "dtx"}

\* pub fn inband_fec(&self), vbr, vbr_constraint, dtx, prediction_disabled
\* and GenericCtl::phase_inversion_disabled: each issues the get request of
\* its setting, but Encoder::phase_inversion_disabled, which issues
\* OPUS_SET_PHASE_INVERSION_DISABLED_REQUEST.
toggle(self, setting) ==
    DidAsBool(ctl_request(self,
        IF self.kind = "Encoder" /\ setting = "phase_inversion_disabled"
        THEN "OPUS_SET_PHASE_INVERSION_DISABLED_REQUEST"
        ELSE GetRequestOf(setting)))

\* pub fn set_inband_fec(&mut self, enable: bool) and the other setters
set_toggle(self, setting, enable) ==
    DidAsUnit(set_ctl_request(self, SetRequestOf(setting), IF enable THEN 1 ELSE 0))

\* pub fn enable_vbr(&mut self), pub fn disable_vbr(&mut self) and the others
enable_toggle(self, setting) == set_toggle(self, setting, TRUE)
disable_toggle(self, setting) == set_toggle(self, setting, FALSE)

\* The settings of an enum type with the variants of the type.
Variants(setting) ==
    CASE setting = "signal" -> {"Auto", "Voice", "Music"}
      [] setting = "force_channels" -> ChannelsSet
      [] setting = "application" -> {"Voip", "Audio", "LowDelay"}

\* pub fn signal(&self), force_channels and application:
\* `.and_then(Signal::try_from)`
typed(self, setting) ==
    { DidOn(did.calls,
            IF ~did.result.ok THEN did.result
            ELSE CASE setting = "signal" -> SignalTryFrom(did.result.i)
                   [] setting = "force_channels" -> ChannelsTryFrom(did.result.i)
                   [] setting = "application" -> ApplicationTryFrom(did.result.i),
            did.eng) :
        did \in encoder_ctl_request(self, GetRequestOf(setting)) }

\* pub fn set_signal(&mut self, signal: Signal), set_force_channels and
\* set_application: the request carries `signal as i32`.
set_typed(self, setting, variant) ==
    DidAsUnit(set_encoder_ctl_request(self, SetRequestOf(setting),
        CASE setting = "signal" -> SignalAsI32(variant)
          [] setting = "force_channels" -> ChannelsAsI32(variant)
          [] setting = "application" -> ApplicationAsI32(variant)))

\* impl Drop for Encoder
encoder_drop(self) ==
    DidOn(<<NCall("opus_encoder_destroy", self.pointer, << >>, 0)>>, OkUnit,
          Destroy(engine, self.pointer))

-----------------------------------------------------------------------------
(* repacketizer.rs: the Repacketizer's constructor and Drop.               *)

\* pub fn new(): the pointer is kept as the engine returned it.
repacketizer_new(created) ==
    Constructed(OkHandle, LiveHandle("Repacketizer", created.pointer, "Mono"))

\* impl Drop for Repacketizer
repacketizer_drop(self) ==
    DidOn(<<NCall("opus_repacketizer_destroy", self.pointer, << >>, 0)>>, OkUnit,
          Destroy(engine, self.pointer))

-----------------------------------------------------------------------------
(* The operations as actions.  Each takes the sets its inputs are drawn    *)
(* from, so that a specification can follow a few inputs or many.          *)

\* An operation that needs no handle and no SoftClip.
HandleFree(op, src, buf, args, uargs, did) ==
    /\ ret' = Record(op, 0, src, buf, args, uargs, did, NoBuf, OkUnit)
    /\ UNCHANGED <<handles, engine, softclip>>

\* An operation on the live handle h: the engine is left as the operation
\* leaves it.
OnHandle(op, h, src, buf, args, did) ==
    /\ ret' = Record(op, h, src, buf, args, << >>, Did(did.calls, did.result),
                     NoBuf, OkUnit)
    /\ engine' = did.eng
    /\ UNCHANGED <<handles, softclip>>

Live(h, kind) == handles[h].kind = kind /\ handles[h].life = "live"

TryMapOpusError(natives) ==
    \E v \in natives :
        HandleFree("try_map_opus_error", "slice", NoBuf, <<v>>, << >>,
                   Did(<< >>, try_map_opus_error(v)))

\* buffer.try_into() to a Packet, and the view's i32_len()
IntoPacket(bufs) ==
    \E src \in BufSources, buf \in bufs :
        LET packet == PacketTryFrom(src, buf) IN
        /\ ret' = Record("Packet::try_from", 0, src, buf, << >>, << >>,
                         Did(<< >>, MapUnit(packet.err)), packet.view,
                         IF packet.ok THEN OkI32(PacketI32Len(packet.view))
                         ELSE packet.err)
        /\ UNCHANGED <<handles, engine, softclip>>

\* buffer.try_into() to a MutPacket, and the view's i32_len()
IntoMutPacket(bufs) ==
    \E src \in BufSources, buf \in bufs :
        LET packet == MutPacketTryFrom(src, buf) IN
        /\ ret' = Record("MutPacket::try_from", 0, src, buf, << >>, << >>,
                         Did(<< >>, MapUnit(packet.err)), packet.view,
                         IF packet.ok THEN MutPacketI32Len(packet.view)
                         ELSE packet.err)
        /\ UNCHANGED <<handles, engine, softclip>>

\* MutPacket::i32_len called again on the MutPacket the step before made or
\* measured: the view borrows the buffer mutably, so the buffer is as it was.
MutPacketI32LenOf ==
    /\ ret.op \in {"MutPacket::try_from", "MutPacket::i32_len"}
    /\ ret.result.ok
    /\ ret' = Record("MutPacket::i32_len", 0, ret.src, ret.buf, << >>, << >>,
                     Did(<< >>, MutPacketI32Len(ret.view)), ret.view,
                     MutPacketI32Len(ret.view))
    /\ UNCHANGED <<handles, engine, softclip>>

\* MutSignals::try_from(buffer), and the view's i32_len()
IntoMutSignals(bufs) ==
    \E src \in BufSources, buf \in bufs :
        LET signals == MutSignalsTryFrom(src, buf) IN
        /\ ret' = Record("MutSignals::try_from", 0, src, buf, << >>, << >>,
                         Did(<< >>, signals.err), signals.view,
                         IF signals.ok THEN OkI32(MutSignalsI32Len(signals.view))
                         ELSE signals.err)
        /\ UNCHANGED <<handles, engine, softclip>>

PacketBandwidth(bufs, natives) ==
    \E src \in BufSources, buf \in bufs, native \in natives :
        HandleFree("packet::bandwidth", src, buf, << >>, << >>,
                   bandwidth(src, buf, native))

\* packet::bandwidth of a buffer that starts with `byte`: the engine returns
\* what that byte says.  An empty buffer has no first byte.
PacketBandwidthOf(bufs, bytes) ==
    \E src \in BufSources, buf \in bufs :
        IF UIsZero(buf.len)
        THEN HandleFree("packet::bandwidth", src, buf, << >>, << >>,
                        bandwidth(src, buf, 0))
        ELSE \E byte \in bytes :
                HandleFree("packet::bandwidth", src, buf, <<byte>>, << >>,
                           bandwidth(src, buf, opus_packet_get_bandwidth(byte)))

PacketSamplesPerFrame(bufs, rates, natives) ==
    \E src \in BufSources, buf \in bufs, rate \in rates, native \in natives :
        HandleFree("packet::samples_per_frame", src, buf, <<rate>>, << >>,
                   samples_per_frame(src, buf, rate, native))

PacketNbSamples(bufs, rates, natives) ==
    \E src \in BufSources, buf \in bufs, rate \in rates, native \in natives :
        HandleFree("packet::nb_samples", src, buf, <<rate>>, << >>,
                   nb_samples(src, buf, rate, native))

PacketNbChannels(bufs, natives) ==
    \E src \in BufSources, buf \in bufs, native \in natives :
        HandleFree("packet::nb_channels", src, buf, << >>, << >>,
                   nb_channels(src, buf, native))

PacketNbFrames(bufs, natives) ==
    \E src \in BufSources, buf \in bufs, native \in natives :
        HandleFree("packet::nb_frames", src, buf, << >>, << >>,
                   nb_frames(src, buf, native))

MultistreamPacketPad(bufs, lens, counts, natives) ==
    \E src \in BufSources, buf \in bufs, new_len \in lens,
       nb_streams \in counts, native \in natives :
        HandleFree("multistream_packet_pad", src, buf, << >>, <<new_len, nb_streams>>,
                   multistream_packet_pad(src, buf, new_len, nb_streams, native))

MultistreamPacketUnpad(bufs, counts, natives) ==
    \E src \in BufSources, buf \in bufs, nb_streams \in counts, native \in natives :
        HandleFree("multistream_packet_unpad", src, buf, << >>, <<nb_streams>>,
                   multistream_packet_unpad(src, buf, nb_streams, native))

PacketPad(bufs, lens, natives) ==
    \E src \in BufSources, buf \in bufs, new_len \in lens, native \in natives :
        HandleFree("packet_pad", src, buf, <<new_len>>, << >>,
                   packet_pad(src, buf, new_len, native))

PacketUnpad(bufs, natives) ==
    \E src \in BufSources, buf \in bufs, native \in natives :
        HandleFree("packet_unpad", src, buf, << >>, << >>,
                   packet_unpad(src, buf, native))

RepacketizerNbFrames ==
    \E h \in Handles :
        /\ Live(h, "Repacketizer")
        /\ \E native \in NbFramesOutcomes(engine, handles[h].pointer) :
              OnHandle("Repacketizer::nb_frames", h, "slice", NoBuf, << >>,
                       repacketizer_nb_frames(handles[h], native))

RepacketizerOut(bufs, lens, natives) ==
    \E h \in Handles :
        /\ Live(h, "Repacketizer")
        /\ \E src \in BufSources, buf \in bufs, max_len \in lens, native \in natives :
              OnHandle("Repacketizer::repacketizer_out", h, src, buf, <<max_len>>,
                       repacketizer_out(handles[h], src, buf, max_len, native))

RepacketizerOutRange(bufs, begins, ends, lens, natives) ==
    \E h \in Handles :
        /\ Live(h, "Repacketizer")
        /\ \E src \in BufSources, buf \in bufs, begin \in begins,
              end \in ends, max_len \in lens, native \in natives :
              OnHandle("Repacketizer::repacketizer_out_range", h, src, buf,
                       <<begin, end, max_len>>,
                       repacketizer_out_range(handles[h], begin, end, src, buf,
                                              max_len, native))

RepacketizerCat(bufs, errors) ==
    \E h \in Handles :
        /\ Live(h, "Repacketizer")
        /\ \E src \in BufSources, buf \in bufs,
              outcome \in CatOutcomes(engine, handles[h].pointer, errors) :
              OnHandle("Repacketizer::repacketizer_cat", h, src, buf, << >>,
                       repacketizer_cat(handles[h], src, buf, outcome))

\* repacketizer_cat of a packet of nb frames, answered by the engine.
RepacketizerCatOf(bufs, counts) ==
    \E h \in Handles :
        /\ Live(h, "Repacketizer")
        /\ \E src \in BufSources, buf \in bufs, nb \in counts :
              \E outcome \in opus_repacketizer_cat(engine, handles[h].pointer, nb) :
                 OnHandle("Repacketizer::repacketizer_cat", h, src, buf, <<nb>>,
                          repacketizer_cat(handles[h], src, buf, outcome))

\* repacketizer_out, answered by the engine.
RepacketizerOutOf(bufs, lens) ==
    \E h \in Handles :
        /\ Live(h, "Repacketizer")
        /\ \E src \in BufSources, buf \in bufs, max_len \in lens :
              \E native \in opus_repacketizer_out_range(engine, handles[h].pointer, 0,
                                engine[handles[h].pointer].frames, max_len) :
                 OnHandle("Repacketizer::repacketizer_out", h, src, buf, <<max_len>>,
                          repacketizer_out(handles[h], src, buf, max_len, native))

\* repacketizer_out_range, answered by the engine.
RepacketizerOutRangeOf(bufs, begins, ends, lens) ==
    \E h \in Handles :
        /\ Live(h, "Repacketizer")
        /\ \E src \in BufSources, buf \in bufs, begin \in begins, end \in ends,
              max_len \in lens :
              \E native \in opus_repacketizer_out_range(engine, handles[h].pointer,
                                begin, end, max_len) :
                 OnHandle("Repacketizer::repacketizer_out_range", h, src, buf,
                          <<begin, end, max_len>>,
                          repacketizer_out_range(handles[h], begin, end, src, buf,
                                                 max_len, native))

SoftClipApply(bufs) ==
    \E src \in BufSources, buf \in bufs, memory \in MemoryValues \X MemoryValues :
        LET did == softclip_apply(softclip, src, buf, << >>, memory) IN
        /\ ret' = Record("SoftClip::apply", 0, src, buf, << >>, << >>,
                         Did(did.calls, did.result), NoBuf, OkUnit)
        /\ softclip' = [softclip EXCEPT !.memory = did.memory]
        /\ UNCHANGED <<handles, engine>>

\* SoftClip::apply on a buffer holding the samples x.
SoftClipApplyTo(signals, memories) ==
    \E src \in BufSources, x \in signals, memory \in memories :
        LET buf == Buffer(1, USize(Len(x), 0, 0, 0))
            did == softclip_apply(softclip, src, buf, x, memory)
        IN
        /\ ret' = Record("SoftClip::apply", 0, src, buf, x, << >>,
                         Did(did.calls, did.result), NoBuf, OkUnit)
        /\ softclip' = [softclip EXCEPT !.memory = did.memory]
        /\ UNCHANGED <<handles, engine>>

\* A constructor on the free slot h of the caller: the engine allocates what
\* it reports, and the caller holds the handle if the constructor returned one.
Construct(op, h, argv, kind, fn, created, made) ==
    /\ handles[h].life = "unborn"
    /\ ret' = Record(op, h, "slice", NoBuf, argv, << >>,
                     Did(<<NCall(fn, created.pointer, argv, created.status)>>,
                         made.result),
                     NoBuf, OkUnit)
    /\ handles' = IF made.result.ok THEN [handles EXCEPT ![h] = made.handle]
                  ELSE handles
    /\ engine' = Allocate(engine, created.pointer, kind)
    /\ UNCHANGED softclip

\* The end of the lifetime of the live handle h: its Drop runs.
EndOfLife(op, h, did) ==
    /\ ret' = Record(op, h, "slice", NoBuf, << >>, << >>,
                     Did(did.calls, did.result), NoBuf, OkUnit)
    /\ handles' = [handles EXCEPT ![h].life = "dropped"]
    /\ engine' = did.eng
    /\ UNCHANGED softclip

DecoderNew(rates, channelset, statuses) ==
    \E h \in Handles, sample_rate \in rates, channels \in channelset,
       created \in CreateOutcomes(engine, statuses) :
        Construct("Decoder::new", h, << >>, "Decoder", "opus_decoder_create", created,
                  decoder_new(sample_rate, channels, created))

EncoderNew(rates, channelset, modes, statuses) ==
    \E h \in Handles, sample_rate \in rates, channels \in channelset,
       mode \in modes, created \in CreateOutcomes(engine, statuses) :
        Construct("Encoder::new", h, << >>, "Encoder", "opus_encoder_create", created,
                  encoder_new(sample_rate, channels, mode, created))

\* Encoder::new with the engine answering as the crate documents it, while
\* the model has an address left for the resource.
EncoderNewChecked(rates, channelset, modes) ==
    \E h \in Handles, sample_rate \in rates, channels \in channelset,
       mode \in modes :
        /\ \E p \in Pointers : engine[p].state = "free"
        /\ \E created \in { opus_encoder_create(engine, sample_rate,
                              ChannelsAsI32(channels), ApplicationAsI32(mode)) } :
              Construct("Encoder::new", h,
                        <<sample_rate, ChannelsAsI32(channels), ApplicationAsI32(mode)>>,
                        "Encoder", "opus_encoder_create", created,
                        encoder_new(sample_rate, channels, mode, created))

RepacketizerNew ==
    \E h \in Handles, created \in CreateOutcomes(engine, {OPUS_OK}) :
        Construct("Repacketizer::new", h, << >>, "Repacketizer",
                  "opus_repacketizer_create", created,
                  repacketizer_new(created))

DecoderDrop ==
    \E h \in Handles :
        /\ Live(h, "Decoder")
        /\ EndOfLife("Decoder::drop", h, decoder_drop(handles[h]))

EncoderDrop ==
    \E h \in Handles :
        /\ Live(h, "Encoder")
        /\ EndOfLife("Encoder::drop", h, encoder_drop(handles[h]))

RepacketizerDrop ==
    \E h \in Handles :
        /\ Live(h, "Repacketizer")
        /\ EndOfLife("Repacketizer::drop", h, repacketizer_drop(handles[h]))

DecoderGain ==
    \E h \in Handles :
        /\ Live(h, "Decoder")
        /\ \E did \in gain(handles[h]) :
              OnHandle("Decoder::gain", h, "slice", NoBuf, << >>, did)

DecoderSetGain(gains) ==
    \E h \in Handles :
        /\ Live(h, "Decoder")
        /\ \E value \in gains : \E did \in set_gain(handles[h], value) :
              OnHandle("Decoder::set_gain", h, "slice", NoBuf, <<value>>, did)

\* Decoder::decode and Decoder::decode_float: the packet, if there is one,
\* and the sample buffer were converted by the caller.  The record holds the
\* packet in buf and the length of the sample buffer in uargs.
DecoderDecode(packets, outputs, natives) ==
    \E h \in Handles, float \in BOOLEAN, fec \in BOOLEAN, output \in outputs,
       input \in {<< >>} \cup { <<packet>> : packet \in packets },
       native \in natives :
        LET did == decode(handles[h],
                          IF float THEN "opus_decode_float" ELSE "opus_decode",
                          input, output, fec, native)
        IN
        /\ Live(h, "Decoder")
        /\ ret' = Record(IF float THEN "Decoder::decode_float" ELSE "Decoder::decode",
                         h, IF Len(input) = 0 THEN "None" ELSE "Some",
                         IF Len(input) = 0 THEN NoBuf ELSE input[1],
                         <<IF fec THEN 1 ELSE 0>>, <<output.len>>,
                         Did(did.calls, did.result), NoBuf, OkUnit)
        /\ engine' = did.eng
        /\ UNCHANGED <<handles, softclip>>

EncoderComplexity ==
    \E h \in Handles :
        /\ Live(h, "Encoder")
        /\ \E did \in complexity(handles[h]) :
              OnHandle("Encoder::complexity", h, "slice", NoBuf, << >>, did)

EncoderSetComplexity(values) ==
    \E h \in Handles :
        /\ Live(h, "Encoder")
        /\ \E value \in values : \E did \in set_complexity(handles[h], value) :
              OnHandle("Encoder::set_complexity", h, "slice", NoBuf, <<value>>, did)

EncoderPacketLossPerc ==
    \E h \in Handles :
        /\ Live(h, "Encoder")
        /\ \E did \in packet_loss_perc(handles[h]) :
              OnHandle("Encoder::packet_loss_perc", h, "slice", NoBuf, << >>, did)

EncoderSetPacketLossPerc(values) ==
    \E h \in Handles :
        /\ Live(h, "Encoder")
        /\ \E value \in values : \E did \in set_packet_loss_perc(handles[h], value) :
              OnHandle("Encoder::set_packet_loss_perc", h, "slice", NoBuf,
                       <<value>>, did)

EncoderLsbDepth ==
    \E h \in Handles :
        /\ Live(h, "Encoder")
        /\ \E did \in lsb_depth(handles[h]) :
              OnHandle("Encoder::lsb_depth", h, "slice", NoBuf, << >>, did)

EncoderSetLsbDepth(values) ==
    \E h \in Handles :
        /\ Live(h, "Encoder")
        /\ \E value \in values : \E did \in set_lsb_depth(handles[h], value) :
              OnHandle("Encoder::set_lsb_depth", h, "slice", NoBuf, <<value>>, did)

\* Encoder::encode and Encoder::encode_float: the record holds the input
\* slice in buf and the length of the output slice in uargs.
EncoderEncode(inputs, outputs, natives) ==
    \E h \in Handles, float \in BOOLEAN, input \in inputs, output \in outputs,
       native \in natives :
        LET did == encode(handles[h],
                          IF float THEN "opus_encode_float" ELSE "opus_encode",
                          input, output, native)
        IN
        /\ Live(h, "Encoder")
        /\ ret' = Record(IF float THEN "Encoder::encode_float" ELSE "Encoder::encode",
                         h, "slice", input, << >>, <<output.len>>,
                         Did(did.calls, did.result), NoBuf, OkUnit)
        /\ engine' = did.eng
        /\ UNCHANGED <<handles, softclip>>

\* A live handle whose kind has the setting.
HasSetting(h, setting) ==
    handles[h].life = "live" /\ handles[h].kind \in KindOfSetting(setting)

ToggleGet(settings) ==
    \E h \in Handles, setting \in settings :
        /\ HasSetting(h, setting)
        /\ \E did \in toggle(handles[h], setting) :
              OnHandle(setting, h, "slice", NoBuf, << >>, did)

ToggleSet(settings) ==
    \E h \in Handles, setting \in settings, enable \in BOOLEAN :
        /\ HasSetting(h, setting)
        /\ \E did \in set_toggle(handles[h], setting, enable) :
              OnHandle("set_" \o setting, h, "slice", NoBuf,
                       <<IF enable THEN 1 ELSE 0>>, did)

ToggleEnable(settings) ==
    \E h \in Handles, setting \in settings :
        /\ HasSetting(h, setting)
        /\ \E did \in enable_toggle(handles[h], setting) :
              OnHandle("enable_" \o setting, h, "slice", NoBuf, << >>, did)

ToggleDisable(settings) ==
    \E h \in Handles, setting \in settings :
        /\ HasSetting(h, setting)
        /\ \E did \in disable_toggle(handles[h], setting) :
              OnHandle("disable_" \o setting, h, "slice", NoBuf, << >>, did)

TypedGet(settings) ==
    \E h \in Handles, setting \in settings :
        /\ Live(h, "Encoder")
        /\ \E did \in typed(handles[h], setting) :
              OnHandle("Encoder::" \o setting, h, "slice", NoBuf, << >>, did)

TypedSet(settings) ==
    \E h \in Handles, setting \in settings :
        /\ Live(h, "Encoder")
        /\ \E variant \in Variants(setting) :
              \E did \in set_typed(handles[h], setting, variant) :
                 OnHandle("Encoder::set_" \o setting, h, "slice", NoBuf,
                          <<variant>>, did)

\* <ty>::try_from(value) for an enum type
TryFromI32(types, values) ==
    \E ty \in types, value \in values :
        HandleFree(ty \o "::try_from", "slice", NoBuf, <<value>>, << >>,
                   Did(<< >>, EnumTryFrom(ty, value)))

\* Bitrate::try_from(value)
BitrateTryFromI32(values) ==
    \E value \in values :
        HandleFree("Bitrate::try_from", "slice", NoBuf, <<value>>, << >>,
                   Did(<< >>, BitrateTryFrom(value)))

-----------------------------------------------------------------------------
(* SpecPure: the error taxonomy, the validated buffers and the functions   *)
(* that need no handle, on buffers of every probed length and with every   *)
(* probed native return value.                                             *)

InitPure ==
    /\ handles = [h \in Handles |-> NoHandle]
    /\ engine = [p \in Pointers |-> FreeResource]
    /\ softclip = SoftClipNew("Stereo")
    /\ ret = NoOp

NextPure ==
    \/ TryMapOpusError(NativeReturns)
    \/ IntoPacket(ProbeBufs)
    \/ IntoMutPacket(ProbeBufs)
    \/ IntoMutSignals(ProbeBufs)
    \/ PacketBandwidth(ProbeBufsAt1, BandwidthReturns)
    \/ PacketSamplesPerFrame(ProbeBufsAt1, {8000, 48000}, StatusReturns)
    \/ PacketNbSamples(ProbeBufsAt1, {8000, 48000}, StatusReturns)
    \/ PacketNbChannels(ProbeBufsAt1, StatusReturns)
    \/ PacketNbFrames(ProbeBufsAt1, StatusReturns)
    \/ MultistreamPacketPad(ProbeBufsAt1, {USize(MaxProbe + 1, 0, 0, 0)},
                            {USize(1, 0, 0, 0)}, StatusReturns)
    \/ MultistreamPacketUnpad(ProbeBufsAt1, {USize(1, 0, 0, 0)}, StatusReturns)
    \/ PacketPad(ProbeBufsAt1, {MaxProbe + 1}, StatusReturns)
    \/ PacketUnpad(ProbeBufsAt1, StatusReturns)

SpecPure == InitPure /\ [][NextPure]_vars

-----------------------------------------------------------------------------
(* SpecBuf: every operation that takes a buffer, on one Repacketizer and   *)
(* one SoftClip, with a buffer of each kind of length: empty, short, as    *)
(* long as i32::MAX, one longer, and 2^32 + 1.                             *)

KindLens ==
    { UZero, USize(1, 0, 0, 0), I32AsUsize(I32_MAX), USize(0, 32768, 0, 0),
      USize(1, 0, 1, 0) }

KindBufs == [ptr : {1}, len : KindLens]

\* The engine refuses or accepts.
KindReturns == {OPUS_BAD_ARG, MaxProbe}

InitBuf ==
    /\ handles = [h \in Handles |->
                    IF h = 1 THEN LiveHandle("Repacketizer", 1, "Mono") ELSE NoHandle]
    /\ engine = [p \in Pointers |->
                    IF p = 1 THEN AllocatedResource("Repacketizer") ELSE FreeResource]
    /\ softclip \in { SoftClipNew(channels) : channels \in ChannelsSet }
    /\ ret = NoOp

NextBuf ==
    \/ PacketBandwidth(KindBufs, {OPUS_BANDWIDTH_WIDEBAND})
    \/ PacketSamplesPerFrame(KindBufs, {48000}, KindReturns)
    \/ PacketNbSamples(KindBufs, {48000}, KindReturns)
    \/ PacketNbChannels(KindBufs, KindReturns)
    \/ PacketNbFrames(KindBufs, KindReturns)
    \/ MultistreamPacketPad(KindBufs, {USize(MaxProbe + 1, 0, 0, 0)},
                            {USize(1, 0, 0, 0)}, KindReturns)
    \/ MultistreamPacketUnpad(KindBufs, {USize(1, 0, 0, 0)}, KindReturns)
    \/ PacketPad(KindBufs, {MaxProbe + 1}, KindReturns)
    \/ PacketUnpad(KindBufs, KindReturns)
    \/ RepacketizerNbFrames
    \/ RepacketizerOut(KindBufs, {MaxProbe + 1}, KindReturns)
    \/ RepacketizerOutRange(KindBufs, {0}, {1}, {MaxProbe + 1}, KindReturns)
    \/ RepacketizerCat(KindBufs, {OPUS_INVALID_PACKET})
    \/ SoftClipApply(KindBufs)

SpecBuf == InitBuf /\ [][NextBuf]_vars

-----------------------------------------------------------------------------
(* SpecLife: the lifetimes of the handles.  The caller constructs handles, *)
(* uses them, with calls that succeed and calls that fail, and lets them   *)
(* go; a handle that was let go is out of reach (it was moved or its scope *)
(* ended), so no operation is taken on it.                                 *)

InitLife ==
    /\ handles = [h \in Handles |-> NoHandle]
    /\ engine = [p \in Pointers |-> FreeResource]
    /\ softclip = SoftClipNew("Stereo")
    /\ ret = NoOp

NextLife ==
    \/ DecoderNew({48000}, {"Stereo"}, CreateStatuses)
    \/ EncoderNew({48000}, {"Stereo"}, {"Audio"}, CreateStatuses)
    \/ RepacketizerNew
    \/ DecoderGain
    \/ DecoderSetGain({MaxProbe, GAIN_MAX + 1})
    \/ EncoderComplexity
    \/ EncoderSetComplexity({MaxProbe, COMPLEXITY_MAX + 1})
    \/ RepacketizerNbFrames
    \/ RepacketizerCat({Buffer(1, UZero), Buffer(1, USize(1, 0, 0, 0))},
                       {OPUS_INVALID_PACKET})
    \/ DecoderDrop
    \/ EncoderDrop
    \/ RepacketizerDrop

SpecLife == InitLife /\ [][NextLife]_vars

-----------------------------------------------------------------------------
(* SpecCtl: the settings of one Decoder and one Encoder, each holding the  *)
(* resource the engine allocated for it, set and read back with values on  *)
(* both sides of every edge of the accepted ranges.                        *)

GainProbes ==
    {I32_MIN, GAIN_MIN - 1, GAIN_MIN, GAIN_MAX, GAIN_MAX + 1, I32_MAX}
        \cup (-MaxProbe .. MaxProbe)

ComplexityProbes == (0 .. MaxProbe) \cup {COMPLEXITY_MAX, COMPLEXITY_MAX + 1, U8_MAX}

PacketLossPercProbes ==
    (0 .. MaxProbe) \cup {PACKET_LOSS_PERC_MAX, PACKET_LOSS_PERC_MAX + 1, U8_MAX}

LsbDepthProbes ==
    {0, LSB_DEPTH_MIN - 1, LSB_DEPTH_MIN, LSB_DEPTH_MAX, LSB_DEPTH_MAX + 1, U8_MAX}

\* The crate does not say which complexity a new encoder has: any accepted
\* value is followed.
InitCtl ==
    /\ handles = [h \in Handles |->
                    IF h = 1 THEN LiveHandle("Decoder", 1, "Stereo")
                    ELSE IF h = 2 THEN LiveHandle("Encoder", 2, "Stereo")
                    ELSE NoHandle]
    /\ \E c \in { v \in ComplexityProbes : Accepts("complexity", v) } :
          engine = [p \in Pointers |->
                      IF p = 1 THEN AllocatedResource("Decoder")
                      ELSE IF p = 2
                      THEN [AllocatedResource("Encoder") EXCEPT !.cfg.complexity = c]
                      ELSE FreeResource]
    /\ softclip = SoftClipNew("Stereo")
    /\ ret = NoOp

NextCtl ==
    \/ DecoderGain
    \/ DecoderSetGain(GainProbes)
    \/ EncoderComplexity
    \/ EncoderSetComplexity(ComplexityProbes)
    \/ EncoderPacketLossPerc
    \/ EncoderSetPacketLossPerc(PacketLossPercProbes)
    \/ EncoderLsbDepth
    \/ EncoderSetLsbDepth(LsbDepthProbes)

SpecCtl == InitCtl /\ [][NextCtl]_vars

-----------------------------------------------------------------------------
(* SpecToggle: the boolean settings of the Decoder and the Encoder of      *)
(* SpecCtl, set, enabled, disabled and read back in every order.           *)

NextToggle ==
    \/ ToggleGet(Toggles)
    \/ ToggleSet(Toggles)
    \/ ToggleEnable(Shorthands)
    \/ ToggleDisable(Shorthands)

SpecToggle == InitCtl /\ [][NextToggle]_vars

-----------------------------------------------------------------------------
(* SpecTyped: the settings of the Encoder of SpecCtl that carry a number   *)
(* or an enum, each set to accepted and to refused values and read back,   *)
(* between sets of the other settings.                                     *)

EnumSettings == {"signal", "force_channels", "application"}

NextTyped ==
    \/ EncoderComplexity
    \/ EncoderSetComplexity(ComplexityProbes)
    \/ EncoderPacketLossPerc
    \/ EncoderSetPacketLossPerc(PacketLossPercProbes)
    \/ EncoderLsbDepth
    \/ EncoderSetLsbDepth(LsbDepthProbes)
    \/ TypedGet(EnumSettings)
    \/ TypedSet(EnumSettings)

SpecTyped == InitCtl /\ [][NextTyped]_vars

-----------------------------------------------------------------------------
(* SpecNew: encoders made with every sampling rate, channel count and      *)
(* application, by an engine that answers as documented.                   *)

NextNew ==
    \/ EncoderNewChecked(SampleRates, ChannelsSet, Variants("application"))
    \/ EncoderDrop

SpecNew == InitLife /\ [][NextNew]_vars

-----------------------------------------------------------------------------
(* SpecBandwidth: packet::bandwidth of buffers starting with every byte:   *)
(* the empty buffer, buffers of one byte and of three bytes, and a buffer  *)
(* of one byte more than i32::MAX.                                         *)

BandwidthBufs ==
    { Buffer(1, len) :
        len \in {UZero, USize(1, 0, 0, 0), USize(3, 0, 0, 0), USize(0, 2^15, 0, 0)} }

NextBandwidth == PacketBandwidthOf(BandwidthBufs, 0..U8_MAX)

SpecBandwidth == InitPure /\ [][NextBandwidth]_vars

-----------------------------------------------------------------------------
(* SpecClip: SoftClip::apply of a SoftClip of any channel count on every   *)
(* buffer of up to MaxSamples samples in and out of range.                 *)

Signals ==
    UNION { [1..n -> {-4, 0, 5}] : n \in 0..MaxSamples }

NextClip == SoftClipApplyTo(Signals, {<<0, 0>>, <<MaxProbe, 0>>})

SpecClip == InitBuf /\ [][NextClip]_vars

-----------------------------------------------------------------------------
(* SpecDecode: the Decoder of SpecCtl decoding a missing packet and        *)
(* packets of one byte and of i32::MAX bytes into sample buffers of no,    *)
(* one, two and i32::MAX samples, with and without fec, the engine         *)
(* returning sample counts and statuses.                                   *)

DecodePackets ==
    { PacketFromSlice(Buffer(2, len)).view : len \in {USize(1, 0, 0, 0), I32AsUsize(I32_MAX)} }

DecodeOutputs ==
    { MutSignalsFromSlice(Buffer(1, len)).view :
        len \in {UZero, USize(1, 0, 0, 0), USize(2, 0, 0, 0), I32AsUsize(I32_MAX)} }

DecodeReturns ==
    {I32_MIN, OPUS_ALLOC_FAIL - 1, OPUS_INVALID_PACKET, OPUS_BUFFER_TOO_SMALL,
     OPUS_BAD_ARG, OPUS_OK, MaxProbe, I32_MAX}

NextDecode == DecoderDecode(DecodePackets, DecodeOutputs, DecodeReturns)

SpecDecode == InitCtl /\ [][NextDecode]_vars

-----------------------------------------------------------------------------
(* SpecRepack: the Repacketizer of SpecBuf fed packets of one frame and    *)
(* more, up to one frame more than the accumulator takes, and emitting     *)
(* every range around the accumulated frames into buffers that are empty,  *)
(* too small and large enough.                                             *)

RepackBufs == { Buffer(1, USize(n, 0, 0, 0)) : n \in {0, MaxFrames + 1} }

NextRepack ==
    \/ RepacketizerNbFrames
    \/ RepacketizerCatOf(RepackBufs, 1..(MaxFrames + 1))
    \/ RepacketizerOutOf(RepackBufs, {1, MaxFrames + 1})
    \/ RepacketizerOutRangeOf(RepackBufs, -1..MaxFrames, 0..(MaxFrames + 1),
                              {1, MaxFrames + 1})

SpecRepack == InitBuf /\ [][NextRepack]_vars

-----------------------------------------------------------------------------
(* SpecPair: every handle of the caller holds an Encoder, a Decoder or a   *)
(* Repacketizer, of the same kind or not, beside a SoftClip; the           *)
(* operations on them are taken in every order, up to the drop of each.    *)

InitPair ==
    /\ handles \in [Handles -> { LiveHandle(kind, p, "Stereo") :
                                   kind \in {"Decoder", "Encoder", "Repacketizer"},
                                   p \in Pointers }]
    /\ \A h \in Handles : handles[h].pointer = h
    /\ engine = [p \in Pointers |-> AllocatedResource(handles[p].kind)]
    /\ softclip = SoftClipNew("Stereo")
    /\ ret = NoOp

NextPair ==
    \/ DecoderGain
    \/ DecoderSetGain({MaxProbe, GAIN_MAX + 1})
    \/ EncoderComplexity
    \/ EncoderSetComplexity({MaxProbe, COMPLEXITY_MAX + 1})
    \/ RepacketizerNbFrames
    \/ RepacketizerCatOf({Buffer(1, USize(1, 0, 0, 0))}, {1, MaxFrames})
    \/ SoftClipApplyTo({<<5, 0>>}, {<<0, 0>>, <<MaxProbe, 0>>})
    \/ DecoderDrop
    \/ EncoderDrop
    \/ RepacketizerDrop

SpecPair == InitPair /\ [][NextPair]_vars

-----------------------------------------------------------------------------
(* SpecEnum: the conversions from the native integer, on the value of      *)
(* every variant of every enum, the integers beside each, 0, 11 (the       *)
(* crate's own test value) and the two ends of i32.                        *)

EnumProbes ==
    UNION { UNION { { EnumAsI32(ty, v) + d : d \in -MaxProbe..MaxProbe } :
                        v \in VariantsOf(ty) } : ty \in EnumTypes }
    \cup {0, 11, I32_MIN, I32_MAX}

BitrateProbes ==
    (-(MaxProbe + 1)..(MaxProbe + 1))
    \cup { OPUS_AUTO + d : d \in -MaxProbe..MaxProbe }
    \cup {500, 512000, I32_MIN, I32_MAX}

NextEnum ==
    \/ TryFromI32(EnumTypes, EnumProbes)
    \/ BitrateTryFromI32(BitrateProbes)

SpecEnum == InitPure /\ [][NextEnum]_vars

-----------------------------------------------------------------------------
(* SpecEncode: the Encoder of SpecCtl encoding sample slices into output   *)
(* slices, and multistream_packet_pad with its new length and its stream   *)
(* count, each of every kind of length: none, short, i32::MAX, one more,   *)
(* and 2^32 + 1.                                                           *)

EncodeInputs == [ptr : {1}, len : KindLens]

EncodeOutputs == [ptr : {2}, len : KindLens]

NextEncode ==
    \/ EncoderEncode(EncodeInputs, EncodeOutputs, KindReturns)
    \/ MultistreamPacketPad({Buffer(1, USize(MaxProbe, 0, 0, 0))}, KindLens, KindLens,
                            KindReturns)

SpecEncode == InitCtl /\ [][NextEncode]_vars

-----------------------------------------------------------------------------
(* SpecGet: every getter of the Decoder and the Encoder of SpecCtl, taken  *)
(* between sets that give the settings other values than a new codec has.  *)

NextGet ==
    \/ DecoderGain
    \/ DecoderSetGain({MaxProbe})
    \/ EncoderComplexity
    \/ EncoderPacketLossPerc
    \/ EncoderLsbDepth
    \/ ToggleGet(Toggles)
    \/ ToggleSet({"vbr", "phase_inversion_disabled"})
    \/ TypedGet(EnumSettings)
    \/ TypedSet({"signal"})

SpecGet == InitCtl /\ [][NextGet]_vars

-----------------------------------------------------------------------------
(* SpecView: buffers of every probed length made into a MutPacket, whose   *)
(* i32_len is then taken again and again, by the caller and by packet_pad  *)
(* and packet_unpad.                                                       *)

NextView ==
    \/ IntoMutPacket(ProbeBufs)
    \/ MutPacketI32LenOf
    \/ PacketPad(ProbeBufs, {MaxProbe + 1}, KindReturns)
    \/ PacketUnpad(ProbeBufs, KindReturns)

SpecView == InitPure /\ [][NextView]_vars

-----------------------------------------------------------------------------
(* SpecSamples: a Decoder and an Encoder, each Mono or Stereo, and a       *)
(* SoftClip of any channel count, given sample buffers of no, one, two and *)
(* three samples, of i32::MAX samples and, where the method takes a plain  *)
(* slice, of more.                                                         *)

InitSamples ==
    /\ handles \in [Handles -> { LiveHandle(kind, p, channels) :
                                   kind \in {"Decoder", "Encoder"}, p \in Pointers,
                                   channels \in {"Mono", "Stereo"} }]
    /\ \A h \in Handles : /\ handles[h].pointer = h
                          /\ handles[h].kind = IF h = 1 THEN "Decoder" ELSE "Encoder"
    /\ engine = [p \in Pointers |-> AllocatedResource(handles[p].kind)]
    /\ softclip \in { SoftClipNew(channels) : channels \in ChannelsSet }
    /\ ret = NoOp

SampleLens == KindLens \cup { USize(n, 0, 0, 0) : n \in 2..MaxSamples }

NextSamples ==
    \/ EncoderEncode([ptr : {1}, len : SampleLens], {Buffer(2, USize(1, 0, 0, 0))},
                     {MaxProbe})
    \/ DecoderDecode({}, { MutSignalsFromSlice(Buffer(1, len)).view :
                              len \in { l \in SampleLens : ~UExceedsI32Max(l) } },
                     {MaxProbe})
    \/ SoftClipApplyTo(Signals, {<<0, 0>>})

SpecSamples == InitSamples /\ [][NextSamples]_vars

-----------------------------------------------------------------------------
(* The claims.                                                             *)

\* C1: every Encoder or Decoder that new() returned as Ok holds a non-null
\* native resource pointer, whatever (pointer, status) pair the native create
\* function reported, and holds it for as long as it lives.
C1_HandleHoldsNonNullPointer ==
    \A h \in Handles :
        handles[h].kind \in {"Encoder", "Decoder"} /\ handles[h].life = "live"
            => handles[h].pointer # 0

\* C2: when the native create function reports a status other than OPUS_OK,
\* Encoder::new and Decoder::new return Err(Error::Opus(code of that status))
\* and the caller holds no handle, whatever pointer the native call produced.
C2_CreateFailureIsAtomic ==
    ret.op \in {"Encoder::new", "Decoder::new"} /\ ret.calls[1].out # OPUS_OK =>
        /\ ret.result = ErrorFromErrorCode(ErrorCodeFromI32(ret.calls[1].out))
        /\ handles[ret.h].life = "unborn"

\* C3: the native resource a handle owns is intact and never destroyed while
\* the handle lives, is destroyed exactly once when the handle was dropped,
\* whatever the operations on it returned, and no native call is made on a
\* resource after its destruction.
C3_DestroyedExactlyOnce ==
    /\ \A p \in Pointers : ~engine[p].misuse /\ engine[p].destroys <= 1
    /\ \A h \in Handles :
          handles[h].pointer \in Pointers =>
              /\ handles[h].life = "live" =>
                    /\ engine[handles[h].pointer].state = "allocated"
                    /\ engine[handles[h].pointer].destroys = 0
              /\ handles[h].life = "dropped" =>
                    /\ engine[handles[h].pointer].state = "destroyed"
                    /\ engine[handles[h].pointer].destroys = 1

\* A Repacketizer that took frames was dropped and its resource destroyed
\* once, while the caller's other handle was dropped too.
C3_Witness ==
    /\ ret.op \in {"Decoder::drop", "Encoder::drop"}
    /\ \A h \in Handles : handles[h].life = "dropped" /\ handles[h].pointer \in Pointers
    /\ \E h \in Handles :
          /\ handles[h].kind = "Repacketizer"
          /\ engine[handles[h].pointer].frames > 0
          /\ engine[handles[h].pointer].destroys = 1

\* A length that fits an i32: bit 31 and every higher bit is clear.
FitsI32(u) == u[2] < 32768 /\ u[3] = 0 /\ u[4] = 0

\* The native codes the crate documents.
DocumentedCodes == { ErrorCodeDiscriminant(c) : c \in ErrorCodes \ {"Unknown"} }

\* C4: try_map_opus_error(v) is Ok(v) for every v >= 0; for every v < 0 it is
\* Err(Error::Opus(c)) with c the ErrorCode whose native code is v, and
\* Unknown when v is none of the seven documented codes.
C4_TryMapFollowsTaxonomy ==
    ret.op = "try_map_opus_error" =>
        LET v == ret.args[1] IN
        /\ v >= 0 => ret.result = OkI32(v)
        /\ v < 0 =>
              /\ ~ret.result.ok
              /\ ret.result.ty = "Opus"
              /\ ret.result.s \in ErrorCodes
              /\ v \in DocumentedCodes =>
                    /\ ret.result.s # "Unknown"
                    /\ ErrorCodeDiscriminant(ret.result.s) = v
              /\ v \notin DocumentedCodes => ret.result.s = "Unknown"

C4_Witness ==
    /\ ret.op = "try_map_opus_error"
    /\ ret.args[1] = OPUS_INVALID_STATE
    /\ ret.result = ErrorFromErrorCode("InvalidState")

\* C5: whenever a native function returns a negative status, the operation
\* that called it returns Error::Opus with the ErrorCode of that status,
\* packet::bandwidth, packet::nb_channels and packet::samples_per_frame
\* included.
C5_NegativeStatusIsOpusError ==
    \A k \in 1..Len(ret.calls) :
        ret.calls[k].out < 0 =>
            ret.result = ErrorFromErrorCode(ErrorCodeFromI32(ret.calls[k].out))

\* C6: a byte buffer converts to Packet or MutPacket with EmptyPacket exactly
\* when it is empty and with PacketTooLarge exactly when it is longer than
\* i32::MAX; a sample buffer converts to MutSignals with SignalsTooLarge
\* exactly when it is longer than i32::MAX.
C6_ConversionRejectsExactly ==
    /\ ret.op \in {"Packet::try_from", "MutPacket::try_from"} =>
          /\ ret.result = Err("EmptyPacket") <=> ret.buf.len = UZero
          /\ ret.result = Err("PacketTooLarge") <=> ~FitsI32(ret.buf.len)
          /\ ret.result.ok <=> (ret.buf.len # UZero /\ FitsI32(ret.buf.len))
    /\ ret.op = "MutSignals::try_from" =>
          /\ ret.result = Err("SignalsTooLarge") <=> ~FitsI32(ret.buf.len)
          /\ ret.result.ok <=> FitsI32(ret.buf.len)

C6_Witness ==
    /\ ret.op = "MutPacket::try_from"
    /\ ret.src = "vec"
    /\ ret.buf.len = USize(0, 32768, 0, 0)
    /\ ret.result = Err("PacketTooLarge")

\* C7: a byte buffer of length 1..i32::MAX converts to Packet and MutPacket,
\* a sample buffer of length 0..i32::MAX converts to MutSignals; the view is
\* the caller's buffer (same address, same length) and its i32_len is the
\* buffer's length.
C7_ConversionKeepsBuffer ==
    LET accepted ==
            \/ /\ ret.op \in {"Packet::try_from", "MutPacket::try_from"}
               /\ ret.buf.len # UZero
               /\ FitsI32(ret.buf.len)
            \/ /\ ret.op = "MutSignals::try_from"
               /\ FitsI32(ret.buf.len)
    IN  accepted =>
            /\ ret.result.ok
            /\ ret.view = ret.buf
            /\ ret.viewlen.ok
            /\ ret.viewlen.i >= 0
            /\ I32AsUsize(ret.viewlen.i) = ret.buf.len

C7_Witness ==
    /\ ret.op = "MutSignals::try_from"
    /\ ret.buf = Buffer(2, UZero)
    /\ ret.result.ok
    /\ ret.view = ret.buf
    /\ ret.viewlen = OkI32(0)

\* The operations that convert their buffer to a Packet, to a MutPacket and
\* to MutSignals.
PacketOps ==
    {"packet::bandwidth", "packet::samples_per_frame", "packet::nb_samples",
     "packet::nb_channels", "packet::nb_frames", "Repacketizer::repacketizer_cat"}

MutPacketOps ==
    {"multistream_packet_pad", "multistream_packet_unpad", "packet_pad",
     "packet_unpad", "Repacketizer::repacketizer_out",
     "Repacketizer::repacketizer_out_range"}

\* The validation error of an operation's buffer, "" when there is none.
ValidationErrorOf(r) ==
    IF r.op \in PacketOps \cup MutPacketOps /\ r.buf.len = UZero THEN "EmptyPacket"
    ELSE IF r.op \in PacketOps \cup MutPacketOps /\ ~FitsI32(r.buf.len)
    THEN "PacketTooLarge"
    ELSE IF r.op = "SoftClip::apply" /\ ~FitsI32(r.buf.len) THEN "SignalsTooLarge"
    ELSE ""

\* C8: an operation whose buffer fails conversion returns that validation
\* error, makes no native call and leaves the repacketizer accumulator and
\* the soft-clip memory as they were.
C8_ValidationBeforeNative ==
    [][ValidationErrorOf(ret') # "" =>
            /\ ret'.result = Err(ValidationErrorOf(ret'))
            /\ ret'.calls = << >>
            /\ engine' = engine
            /\ softclip' = softclip]_vars

C8_Witness ==
    /\ ret.op = "Repacketizer::repacketizer_cat"
    /\ ret.buf.len = UZero
    /\ ret.result = Err("EmptyPacket")
    /\ ret.calls = << >>
    /\ engine[1].frames > 0

\* C9: on a Decoder, set_gain(g) succeeds for every g in [-32768, 32767], and
\* a gain() that follows it returns g.
C9_GainRoundTrip ==
    [][/\ (/\ ret'.op = "Decoder::set_gain"
           /\ GAIN_MIN <= ret'.args[1] /\ ret'.args[1] <= GAIN_MAX)
            => ret'.result = OkUnit
       /\ (/\ ret.op = "Decoder::set_gain"
           /\ GAIN_MIN <= ret.args[1] /\ ret.args[1] <= GAIN_MAX
           /\ ret'.op = "Decoder::gain" /\ ret'.h = ret.h)
            => ret'.result = OkI32(ret.args[1])]_vars

\* gain() returned the lowest gain, which only a set_gain(-32768) stores.
C9_Witness ==
    /\ ret.op = "Decoder::gain"
    /\ ret.result = OkI32(GAIN_MIN)
    /\ ret.calls # << >>

\* The setters of C10, each with its setting and its getter.
SetterOps ==
    {"Decoder::set_gain", "Encoder::set_complexity", "Encoder::set_packet_loss_perc",
     "Encoder::set_lsb_depth"}

SettingOfOp(op) ==
    CASE op = "Decoder::set_gain" -> "gain"
      [] op = "Encoder::set_complexity" -> "complexity"
      [] op = "Encoder::set_packet_loss_perc" -> "packet_loss_perc"
      [] op = "Encoder::set_lsb_depth" -> "lsb_depth"

GetterOfOp(op) ==
    CASE op = "Decoder::set_gain" -> "Decoder::gain"
      [] op = "Encoder::set_complexity" -> "Encoder::complexity"
      [] op = "Encoder::set_packet_loss_perc" -> "Encoder::packet_loss_perc"
      [] op = "Encoder::set_lsb_depth" -> "Encoder::lsb_depth"

\* The sets the engine rejects: a gain outside [-32768, 32767], a complexity
\* above 10, a packet_loss_perc above 100, an lsb_depth outside [8, 24].
IsRejectedSet(r) ==
    /\ r.op \in SetterOps
    /\ CASE r.op = "Decoder::set_gain" -> r.args[1] < GAIN_MIN \/ r.args[1] > GAIN_MAX
         [] r.op = "Encoder::set_complexity" -> r.args[1] > COMPLEXITY_MAX
         [] r.op = "Encoder::set_packet_loss_perc" -> r.args[1] > PACKET_LOSS_PERC_MAX
         [] r.op = "Encoder::set_lsb_depth" ->
                r.args[1] < LSB_DEPTH_MIN \/ r.args[1] > LSB_DEPTH_MAX

\* C10: a set the engine rejects returns Err(Error::Opus(BadArgument)) and
\* changes no setting, and a get of that setting that follows it returns the
\* value the setting had before the set.
C10_RejectedSetChangesNothing ==
    [][/\ IsRejectedSet(ret') =>
            /\ ret'.result = ErrorFromErrorCode("BadArgument")
            /\ engine' = engine
       /\ (IsRejectedSet(ret) /\ ret'.op = GetterOfOp(ret.op) /\ ret'.h = ret.h) =>
            ret'.result =
                OkI32(engine[handles[ret.h].pointer].cfg[SettingOfOp(ret.op)])]_vars

\* set_lsb_depth(25) was refused on an encoder whose depth was set to 8
\* before, and the depth is still 8.
C10_Witness ==
    /\ ret.op = "Encoder::set_lsb_depth"
    /\ ret.args = <<LSB_DEPTH_MAX + 1>>
    /\ ret.result = ErrorFromErrorCode("BadArgument")
    /\ ret.calls # << >>
    /\ engine[handles[ret.h].pointer].cfg.lsb_depth = LSB_DEPTH_MIN

\* The step before set the toggle to b on its handle: set_<toggle>(b), or
\* the shorthand for b.
WasSet(r, setting, b) ==
    \/ r.op = "set_" \o setting /\ r.args = <<IF b THEN 1 ELSE 0>>
    \/ b /\ r.op = "enable_" \o setting
    \/ ~b /\ r.op = "disable_" \o setting

\* C11: for each boolean setting of an Encoder (inband_fec, vbr,
\* vbr_constraint, dtx, prediction_disabled, phase_inversion_disabled) and
\* phase_inversion_disabled of a Decoder, set(true) followed by the getter
\* on the same handle returns Ok(true) and set(false) followed by the getter
\* returns Ok(false); enable_* and disable_* count as set(true), set(false).
C11_ToggleRoundTrip ==
    [][\A setting \in Toggles, b \in BOOLEAN :
          WasSet(ret, setting, b) /\ ret'.op = setting /\ ret'.h = ret.h
              => ret'.result = OkBool(b)]_vars

NumberSettings == {"complexity", "packet_loss_perc", "lsb_depth"}

\* Ok(v) as the getter of the setting returns it, v being the argument of
\* the setter or the value the engine holds.
OkOfArgument(setting, v) == IF setting \in EnumSettings THEN OkEnum(v) ELSE OkI32(v)
OkOfStored(setting, stored) ==
    CASE setting = "signal" -> SignalTryFrom(stored)
      [] setting = "force_channels" -> ChannelsTryFrom(stored)
      [] setting = "application" -> ApplicationTryFrom(stored)
      [] OTHER -> OkI32(stored)

\* C12: on an Encoder, for complexity, packet_loss_perc, lsb_depth, signal,
\* force_channels and application, a successful set(v) followed by the
\* matching getter returns Ok(v); and the value persists until the next
\* successful set of the same setting: a step that is no successful set of
\* the setting leaves the value the encoder holds as it was, and the getter
\* returns that value.
C12_TypedRoundTrip ==
    [][\A setting \in NumberSettings \cup EnumSettings :
          LET set == "Encoder::set_" \o setting
              get == "Encoder::" \o setting
              p == handles[ret'.h].pointer
          IN  /\ ret.op = set /\ ret.result.ok /\ ret'.op = get /\ ret'.h = ret.h
                    => ret'.result = OkOfArgument(setting, ret.args[1])
              /\ ~(ret'.op = set /\ ret'.result.ok) /\ ret'.h # 0
                    => engine'[p].cfg[setting] = engine[p].cfg[setting]
              /\ ret'.op = get
                    => ret'.result = OkOfStored(setting, engine[p].cfg[setting])]_vars

\* A getter returned a value that only a set can have stored.
C12_Witness ==
    /\ ret.op = "Encoder::signal" /\ ret.result = OkEnum("Music")
    /\ engine[handles[ret.h].pointer].cfg.complexity = COMPLEXITY_MAX

\* C13: Encoder::new with Channels::Auto returns Err(Opus(BadArgument)) and
\* no handle, for every sampling rate and application; with Channels::Mono
\* or Channels::Stereo it returns Ok(Encoder) holding the resource the
\* engine made.
C13_AutoIsRejected ==
    ret.op = "Encoder::new" =>
        /\ ret.args[1] \in SampleRates
        /\ IF ret.args[2] = ChannelsAsI32("Auto")
           THEN /\ ret.result = ErrorFromErrorCode("BadArgument")
                /\ handles[ret.h] = NoHandle
           ELSE /\ ret.result.ok
                /\ Live(ret.h, "Encoder")
                /\ Usable(engine, handles[ret.h].pointer)
                /\ ChannelsAsI32(handles[ret.h].channels) = ret.args[2]

\* Auto was just refused after a Mono encoder was made.
C13_Witness ==
    /\ ret.op = "Encoder::new" /\ ret.args[2] = ChannelsAsI32("Auto")
    /\ ~ret.result.ok
    /\ \E h \in Handles : Live(h, "Encoder") /\ handles[h].channels = "Mono"

\* C14: packet::bandwidth of a packet whose first byte is 1, 2 or 3 is
\* Ok(Narrowband), 50 Ok(Mediumband), 80 Ok(Wideband), 200 Ok(Superwideband)
\* and 255 Ok(Fullband); of an empty buffer it is Err(EmptyPacket), found
\* before the engine is called, and never a bandwidth.
C14_BandwidthByFirstByte ==
    ret.op = "packet::bandwidth" =>
        /\ UIsZero(ret.buf.len) => ret.result = Err("EmptyPacket") /\ ret.calls = << >>
        /\ ret.calls # << >> =>
              ret.result =
                CASE ret.args[1] \in {1, 2, 3} -> OkEnum("Narrowband")
                  [] ret.args[1] = 50 -> OkEnum("Mediumband")
                  [] ret.args[1] = 80 -> OkEnum("Wideband")
                  [] ret.args[1] = 200 -> OkEnum("Superwideband")
                  [] ret.args[1] = U8_MAX -> OkEnum("Fullband")
                  [] OTHER -> ret.result
        /\ ~UIsZero(ret.buf.len) /\ ~UExceedsI32Max(ret.buf.len) => ret.calls # << >>

\* A one-byte packet holding 50 was classified.
C14_Witness ==
    /\ ret.op = "packet::bandwidth" /\ ret.args = <<50>>
    /\ ret.buf.len = USize(1, 0, 0, 0) /\ ret.result = OkEnum("Mediumband")

\* C15: for a sample buffer of any length, a multiple of the instance's
\* channel count or not, after SoftClip::apply returned every sample of the
\* buffer lies in [-1.0, 1.0].
C15_SoftClipBounds ==
    ret.op = "SoftClip::apply" /\ ret.result.ok =>
        \A k \in 1..Len(ret.calls[1].out) :
            -1 <= ret.calls[1].out[k] /\ ret.calls[1].out[k] <= 1

\* C16: Decoder::decode and Decoder::decode_float with input None hand the
\* engine a null packet pointer and the length 0, and return what the engine
\* returned, mapped through the error taxonomy: Err(Opus(code)) for a
\* negative value, Ok(n as usize) otherwise.  None never yields a validation
\* error such as EmptyPacket.
C16_NoneIsPacketLoss ==
    ret.op \in {"Decoder::decode", "Decoder::decode_float"} /\ ret.src = "None" =>
        /\ Len(ret.calls) = 1
        /\ ret.calls[1].fn =
              (IF ret.op = "Decoder::decode" THEN "opus_decode" ELSE "opus_decode_float")
        /\ ret.calls[1].res = handles[ret.h].pointer
        /\ ret.calls[1].argv[1] = 0 /\ ret.calls[1].argv[2] = 0
        /\ ret.result =
              (IF ret.calls[1].out < 0
               THEN ErrorFromErrorCode(ErrorCodeFromI32(ret.calls[1].out))
               ELSE OkUsize(I32AsUsize(ret.calls[1].out)))
        /\ ret.result.ty \notin ValidationErrors

\* A missing packet was concealed: the engine returned a count of samples.
C16_Witness ==
    /\ ret.op = "Decoder::decode_float" /\ ret.src = "None"
    /\ ret.calls[1].out = MaxProbe /\ ret.result = OkUsize(I32AsUsize(MaxProbe))

\* C17: after Repacketizer::nb_frames, repacketizer_out or
\* repacketizer_out_range, whether the call succeeded or failed, the
\* accumulator holds what it held before the call.
C17_EmitLeavesAccumulator ==
    [][ret'.op \in {"Repacketizer::nb_frames", "Repacketizer::repacketizer_out",
                    "Repacketizer::repacketizer_out_range"}
          => \A p \in Pointers : /\ engine'[p].frames = engine[p].frames
                                 /\ engine'[p].state = engine[p].state]_vars

\* An out call failed on an accumulator that holds frames, which it still
\* holds.
C17_Witness ==
    /\ ret.op = "Repacketizer::repacketizer_out" /\ Len(ret.calls) = 1
    /\ ret.result = ErrorFromErrorCode("BufferTooSmall")
    /\ engine[handles[ret.h].pointer].frames = MaxFrames

\* C18: a successful repacketizer_cat(packet) increases nb_frames() by
\* exactly the number of frames in the packet; a cat that would take the
\* accumulator past the engine's limit of frames fails with an error and
\* leaves nb_frames() as it was (as does every failed cat); and the
\* accumulated count never exceeds the limit.
C18_CatAppendsOrNothing ==
    [][LET p == handles[ret'.h].pointer IN
       /\ ret'.op = "Repacketizer::repacketizer_cat" =>
             /\ ret'.result.ok => engine'[p].frames = engine[p].frames + ret'.args[1]
             /\ ~ret'.result.ok => engine'[p].frames = engine[p].frames
             /\ engine[p].frames + ret'.args[1] > MaxFrames => ~ret'.result.ok
             /\ engine'[p].frames <= MaxFrames
       /\ ret'.op = "Repacketizer::nb_frames" =>
             ret'.result = OkUsize(I32AsUsize(engine'[p].frames))]_vars

\* A packet was refused by an accumulator that it would have overfilled.
C18_Witness ==
    /\ ret.op = "Repacketizer::repacketizer_cat" /\ Len(ret.calls) = 1
    /\ ~ret.result.ok
    /\ engine[handles[ret.h].pointer].frames = 1
    /\ ret.args = <<MaxFrames>>

\* C19: repacketizer_out on an accumulator with no frames returns an error;
\* repacketizer_out_range(begin, end, ..) returns an error unless
\* 0 <= begin < end <= nb_frames(); and a successful out_range hands begin
\* and end to the engine as given, which emits a packet of the end - begin
\* frames of that range.
C19_AccumulateThenEmit ==
    LET frames == engine[handles[ret.h].pointer].frames
        begin == ret.args[1]
        end == ret.args[2]
    IN
    /\ ret.op = "Repacketizer::repacketizer_out" /\ frames = 0 => ~ret.result.ok
    /\ ret.op = "Repacketizer::repacketizer_out_range" =>
          /\ ~(0 <= begin /\ begin < end /\ end <= frames) => ~ret.result.ok
          /\ ret.result.ok =>
                /\ Len(ret.calls) = 1
                /\ ret.calls[1].fn = "opus_repacketizer_out_range"
                /\ ret.calls[1].argv[1] = begin /\ ret.calls[1].argv[2] = end
                /\ ret.calls[1].out = (end - begin) + 1

\* The second of two accumulated frames was emitted alone.
C19_Witness ==
    /\ ret.op = "Repacketizer::repacketizer_out_range" /\ ret.result.ok
    /\ ret.args[1] = 1 /\ ret.args[2] = MaxFrames
    /\ engine[handles[ret.h].pointer].frames = MaxFrames

\* What an operation returns and leaves of its instance when the instance
\* is run alone: both follow from the operation, its arguments and the
\* instance's resource `own` before the call; `left` is the resource after.
RunAlone(r, own, left) ==
    CASE r.op = "Decoder::gain" -> r.result = OkI32(own.cfg.gain) /\ left = own
      [] r.op = "Encoder::complexity" ->
            r.result = OkI32(own.cfg.complexity) /\ left = own
      [] r.op = "Repacketizer::nb_frames" ->
            r.result = OkUsize(I32AsUsize(own.frames)) /\ left = own
      [] r.op = "Decoder::set_gain" ->
            IF Accepts("gain", r.args[1])
            THEN r.result = OkUnit /\ left = [own EXCEPT !.cfg.gain = r.args[1]]
            ELSE r.result = ErrorFromErrorCode("BadArgument") /\ left = own
      [] r.op = "Encoder::set_complexity" ->
            IF Accepts("complexity", r.args[1])
            THEN r.result = OkUnit /\ left = [own EXCEPT !.cfg.complexity = r.args[1]]
            ELSE r.result = ErrorFromErrorCode("BadArgument") /\ left = own
      [] r.op = "Repacketizer::repacketizer_cat" ->
            IF r.result.ok
            THEN own.frames + r.args[1] <= MaxFrames
                 /\ left = [own EXCEPT !.frames = own.frames + r.args[1]]
            ELSE r.result = ErrorFromErrorCode("InvalidPacket") /\ left = own
      [] OTHER -> left = [own EXCEPT !.state = "destroyed", !.destroys = 1]

C21_EnumConversionsExact ==
    \A ty \in EnumTypes :
        ret.op = ty \o "::try_from" =>
            /\ \A v \in VariantsOf(ty) :
                  ret.args[1] = EnumAsI32(ty, v) => ret.result = OkEnum(v)
            /\ ret.args[1] \notin { EnumAsI32(ty, v) : v \in VariantsOf(ty) } =>
                  ret.result = (IF ty = "Application" THEN Err("InvalidApplication")
                                ELSE ErrWith("Invalid" \o ty, ret.args[1]))

\* The integer beside a sample rate was refused as a sample rate.
C21_Witness ==
    /\ ret.op = "SampleRate::try_from" /\ ret.args = <<48000 + 1>>
    /\ ret.result = ErrWith("InvalidSampleRate", 48000 + 1)

\* C24: Bitrate::try_from(v) is Auto for OPUS_AUTO, Max for
\* OPUS_BITRATE_MAX, BitsPerSecond(v) for every v > 0 and
\* Err(Error::InvalidBitrate(v)) for every other v.
C24_BitrateOwnError ==
    ret.op = "Bitrate::try_from" =>
        ret.result =
            (LET v == ret.args[1] IN
             IF v = OPUS_AUTO THEN OkEnum("Auto")
             ELSE IF v = OPUS_BITRATE_MAX THEN OkEnum("Max")
             ELSE IF v > 0 THEN OkBitsPerSecond(v)
             ELSE ErrWith("InvalidBitrate", v))

\* C22: Encoder::encode, encode_float and multistream_packet_pad never
\* narrow a length or count of the caller to 32 bits with wrap-around: a
\* sample buffer, output buffer, new_len or nb_streams above i32::MAX is
\* refused with SignalsTooLarge or PacketTooLarge before any native call,
\* and every length or count handed to the engine is the caller's value
\* (for the samples, the caller's length divided by the channel count).
C22_NoNarrowing ==
    /\ ret.op \in {"Encoder::encode", "Encoder::encode_float"} =>
          /\ ~FitsI32(ret.buf.len) \/ ~FitsI32(ret.uargs[1]) =>
                /\ ret.result.ty \in {"SignalsTooLarge", "PacketTooLarge"}
                /\ ret.calls = << >>
          /\ ret.calls # << >> =>
                /\ ret.calls[1].argv[2] >= 0
                /\ I32AsUsize(ret.calls[1].argv[2]
                              * ChannelsAsI32(handles[ret.h].channels)
                              + (ret.buf.len[1] % ChannelsAsI32(handles[ret.h].channels)))
                      = ret.buf.len
                /\ ret.calls[1].argv[4] >= 0
                /\ I32AsUsize(ret.calls[1].argv[4]) = ret.uargs[1]
    /\ ret.op = "multistream_packet_pad" =>
          /\ ~FitsI32(ret.uargs[1]) \/ ~FitsI32(ret.uargs[2]) =>
                /\ ret.result.ty \in {"SignalsTooLarge", "PacketTooLarge"}
                /\ ret.calls = << >>
          /\ ret.calls # << >> =>
                /\ ret.calls[1].argv[3] >= 0
                /\ I32AsUsize(ret.calls[1].argv[3]) = ret.uargs[1]
                /\ ret.calls[1].argv[4] >= 0
                /\ I32AsUsize(ret.calls[1].argv[4]) = ret.uargs[2]

\* The getters, each with its setting.
GetterOps ==
    { <<"Decoder::gain", "gain">> }
    \cup { <<"Encoder::" \o setting, setting>> : setting \in NumberSettings \cup EnumSettings }
    \cup { <<setting, setting>> : setting \in Toggles }

\* C23: every getter of Encoder and Decoder issues the get request of its
\* own setting, never a set request, and leaves every setting of every
\* codec as it was; Encoder::phase_inversion_disabled issues
\* OPUS_GET_PHASE_INVERSION_DISABLED_REQUEST as the Decoder's does.
C23_GettersOnlyGet ==
    [][\A getter \in GetterOps :
          ret'.op = getter[1] =>
              /\ Len(ret'.calls) = 1
              /\ ret'.calls[1].argv = <<GetRequestOf(getter[2])>>
              /\ ret'.calls[1].argv[1] \in GetRequests
              /\ engine' = engine]_vars

\* C25: for every SoftClip that SoftClip::new makes, of any Channels value,
\* the channel count apply hands to the engine is 1 or 2, never more than
\* the two slots of the filter memory, and the per-channel sample count it
\* hands over is not negative.
C25_SoftClipTwoChannels ==
    ret.op = "SoftClip::apply" /\ ret.calls # << >> =>
        /\ ret.calls[1].argv[3] \in {1, 2}
        /\ ret.calls[1].argv[3] <= Len(softclip.memory)
        /\ ret.calls[1].argv[2] >= 0

\* C28: in repacketizer_out and repacketizer_out_range the maximum length
\* handed to the engine never exceeds the length of the validated output
\* buffer, whatever max_len the caller gave.
C28_EmitWithinBuffer ==
    ret.op \in {"Repacketizer::repacketizer_out", "Repacketizer::repacketizer_out_range"}
    /\ ret.calls # << >> =>
        LET maxlen == ret.calls[1].argv[Len(ret.calls[1].argv)] IN
        maxlen > 0 => ~UGreater(I32AsUsize(maxlen), ret.buf.len)

\* C30: every Repacketizer holds a non-null pointer, also when the engine's
\* create function returned none, so that nb_frames, cat, out and drop are
\* never called on a null resource.
C30_RepacketizerNonNull ==
    /\ \A h \in Handles :
          handles[h].kind = "Repacketizer" /\ handles[h].life = "live"
              => handles[h].pointer # 0
    /\ ret.op \in {"Repacketizer::nb_frames", "Repacketizer::repacketizer_cat",
                   "Repacketizer::repacketizer_out",
                   "Repacketizer::repacketizer_out_range", "Repacketizer::drop"}
          => \A k \in 1..Len(ret.calls) : ret.calls[k].res # 0

\* C26: every call of MutPacket::i32_len runs the length check on the
\* buffer under the view, and on a MutPacket that was constructed every
\* call returns Ok(n), n the length of the buffer, 1 <= n <= i32::MAX:
\* never EmptyPacket, never PacketTooLarge.  packet_pad and packet_unpad
\* hand that n to the engine.
C26_MutPacketLenRechecked ==
    /\ (ret.op = "MutPacket::try_from" /\ ret.result.ok) \/ ret.op = "MutPacket::i32_len" =>
          /\ ret.viewlen = packet_len_check(ret.buf.len)
          /\ ret.viewlen.ok
          /\ 1 <= ret.viewlen.i /\ ret.viewlen.i <= I32_MAX
          /\ I32AsUsize(ret.viewlen.i) = ret.buf.len
          /\ ret.view = ret.buf
    /\ ret.op = "MutPacket::i32_len" => ret.result = ret.viewlen
    /\ ret.op \in {"packet_pad", "packet_unpad"} =>
          /\ ret.calls = << >> => ret.result.ty \in {"EmptyPacket", "PacketTooLarge"}
          /\ ret.calls # << >> =>
                /\ 1 <= ret.calls[1].argv[2]
                /\ I32AsUsize(ret.calls[1].argv[2]) = ret.buf.len

\* The length of the longest MutPacket was taken a second time.
C26_Witness ==
    /\ ret.op = "MutPacket::i32_len"
    /\ ret.buf.len = I32AsUsize(I32_MAX)
    /\ ret.result = OkI32(I32_MAX)

\* The methods that hand a sample buffer to the engine.
EncodeOps == {"Encoder::encode", "Encoder::encode_float"}
DecodeOps == {"Decoder::decode", "Decoder::decode_float"}

\* C27: in encode, encode_float, decode, decode_float and SoftClip::apply
\* the per-channel sample count handed to the engine is the length of the
\* sample buffer divided by the channel count, rounded down, so that with 1
\* or 2 channels the count times the channels is no more than the length;
\* the samples after that product are left as they were.
C27_CountWithinBuffer ==
    LET channels == ChannelsAsI32(IF ret.h = 0 THEN softclip.channels
                                  ELSE handles[ret.h].channels)
        samples == IF ret.op \in DecodeOps THEN ret.uargs[1] ELSE ret.buf.len
        count == ret.calls[1].argv[IF ret.op \in DecodeOps THEN 4 ELSE 2]
    IN  /\ ret.op \in EncodeOps \cup DecodeOps \cup {"SoftClip::apply"}
        /\ ret.calls # << >>
        /\ channels \in {1, 2}
        => /\ count >= 0
           /\ I32AsUsize(count * channels + (samples[1] % channels)) = samples
           /\ ret.op = "SoftClip::apply" =>
                 \A k \in 1..Len(ret.args) :
                    k > count * channels => ret.calls[1].out[k] = ret.args[k]

\* C29: over any sequence of operations on a Repacketizer nb_frames() never
\* decreases, no operation empties the accumulator; once the engine's limit
\* of frames is reached every later repacketizer_cat fails and the count
\* stays at the limit.
C29_AccumulatorOnlyGrows ==
    [][/\ \A p \in Pointers : engine'[p].frames >= engine[p].frames
       /\ ret'.op = "Repacketizer::repacketizer_cat"
          /\ engine[handles[ret'.h].pointer].frames = MaxFrames
          => /\ ~ret'.result.ok
             /\ engine'[handles[ret'.h].pointer].frames = MaxFrames]_vars

\* A packet of one frame was refused by an accumulator at its limit.
C29_Witness ==
    /\ ret.op = "Repacketizer::repacketizer_cat" /\ Len(ret.calls) = 1
    /\ ret.args = <<1>>
    /\ ret.result = ErrorFromErrorCode("InvalidPacket")
    /\ engine[handles[ret.h].pointer].frames = MaxFrames

=============================================================================
